---- MODULE Spec2Model ----
(***************************************************************************)
(* A model of the spectral path tracer "light" (jLantxa/light).            *)
(*                                                                         *)
(* Scalars.  The program computes in f32/f64.  A scalar is modelled as an  *)
(* extended rational <<n, d, 0>> in lowest terms: d > 0 is the number n/d, *)
(* d = 0 with n = 1, -1, 0 is +inf, -inf, NaN.  Arithmetic and             *)
(* comparisons follow IEEE-754 on these values (x/0 = +-inf, 0/0 = NaN,    *)
(* every comparison with NaN is false).  Rounding enters with the square   *)
(* root of a non-square and with tan(PI/2): a rounded value is a multiple  *)
(* of 1/SqrtGrid and carries the IEEE "inexact" flag as a third component  *)
(* <<n, d, 1>>, which every result computed from it inherits.  Values      *)
(* computed without rounding are exact rationals.                          *)
(***************************************************************************)
EXTENDS Integers, Sequences, FiniteSets, TLC

\* op, args, ret: the last call, its inputs and what it returned;
\* camera: the Camera object of camera.rs;
\* calls: the number of calls made so far.
VARIABLES op, args, ret, camera, calls, spectrum, scene, tracer, stack, path, thread_rng

vars == <<op, args, ret, camera, calls, spectrum, scene, tracer, stack, path, thread_rng>>

\* The state of the renderer: the spectrum at hand, the scene, the path
\* tracer, the frames of the calls in progress and the record of the path.
renderVars == <<spectrum, scene, tracer, stack, path, thread_rng>>

(***************************************************************************)
(* Extended rationals with the IEEE "inexact" flag                         *)
(***************************************************************************)
IAbs(n) == IF n < 0 THEN -n ELSE n

Sgn(n) == IF n < 0 THEN -1 ELSE IF n > 0 THEN 1 ELSE 0

\* Let(e, LAMBDA v : body) is body with v bound to the value of e: e is
\* evaluated once, however often the body reads v.
Let(e, F(_)) == CHOOSE r \in {F(v) : v \in {e}} : TRUE

RECURSIVE GCD(_, _)
GCD(a, b) == IF b = 0 THEN a ELSE GCD(b, a % b)

\* Resolution of rounded values (the model's stand-in for the mantissa).
SqrtGrid == 16

\* The exact scalar n/d, in lowest terms with a positive denominator; n/0 is
\* an infinity or NaN.
Rat(n0, d0) ==
    Let(<<n0, d0>>, LAMBDA p :
        IF p[2] = 0 THEN <<Sgn(p[1]), 0, 0>>
        ELSE LET g == GCD(IAbs(p[1]), IAbs(p[2]))
             IN  <<Sgn(p[2]) * Sgn(p[1]) * (IAbs(p[1]) \div g), IAbs(p[2]) \div g, 0>>)

I(n) == <<n, 1, 0>>

NaN == <<0, 0, 0>>
PosInf == <<1, 0, 0>>
NegInf == <<-1, 0, 0>>

IsNaN(x) == x[1] = 0 /\ x[2] = 0
\* No rounding took part in computing x.
IsExact(x) == x[3] = 0

Inexact(x) == <<x[1], x[2], 1>>

\* n/d as a rounded result: rounded down to the grid and flagged inexact.
Rounded(n0, d0) ==
    Let(<<n0, d0>>, LAMBDA p :
        IF p[2] = 0 THEN <<Sgn(p[1]), 0, 0>>
        ELSE Inexact(Rat((Sgn(p[2]) * p[1] * SqrtGrid) \div IAbs(p[2]), SqrtGrid)))

\* The result n/d of an operation: exact when all its operands were.
Result(n, d, inexact) == IF inexact THEN Rounded(n, d) ELSE Rat(n, d)

Neg(x) == <<-x[1], x[2], x[3]>>

Add(x0, y0) ==
    Let(<<x0, y0>>, LAMBDA p :
        LET x == p[1]
            y == p[2]
        IN  IF x[2] = 0 \/ y[2] = 0
            THEN IF x[2] = 0 /\ y[2] = 0 THEN (IF x[1] = y[1] THEN <<x[1], 0, 0>> ELSE NaN)
                 ELSE IF x[2] = 0 THEN <<x[1], 0, 0>> ELSE <<y[1], 0, 0>>
            ELSE LET g  == GCD(x[2], y[2])
                     l1 == y[2] \div g
                     l2 == x[2] \div g
                 IN  Result(x[1] * l1 + y[1] * l2, x[2] * l1, x[3] + y[3] > 0))

Sub(x, y) == Add(x, Neg(y))

Mul(x0, y0) ==
    Let(<<x0, y0>>, LAMBDA p :
    LET x == p[1]
        y == p[2]
    IN
    IF x[2] = 0 \/ y[2] = 0 THEN <<Sgn(x[1]) * Sgn(y[1]), 0, 0>>
    ELSE LET g1 == GCD(IAbs(x[1]), y[2])
             g2 == GCD(IAbs(y[1]), x[2])
         IN  Result(Sgn(x[1]) * Sgn(y[1]) * (IAbs(x[1]) \div g1) * (IAbs(y[1]) \div g2),
                    (x[2] \div g2) * (y[2] \div g1), x[3] + y[3] > 0))

\* x / y, with x/0 = +-inf (zeros carry no sign here), x/inf = 0 and 0/0,
\* inf/inf = NaN.
Div(x0, y0) ==
    Let(<<x0, y0>>, LAMBDA p :
    LET x == p[1]
        y == p[2]
    IN
    IF x[2] = 0 \/ y[2] = 0 \/ y[1] = 0
    THEN IF y[2] = 0 THEN (IF x[2] = 0 \/ y[1] = 0 THEN NaN ELSE <<0, 1, 0>>)
         ELSE IF x[2] = 0 THEN (IF y[1] = 0 THEN <<x[1], 0, 0>> ELSE <<x[1] * Sgn(y[1]), 0, 0>>)
         ELSE <<Sgn(x[1]), 0, 0>>
    ELSE LET g1 == GCD(IAbs(x[1]), IAbs(y[1]))
             g2 == GCD(x[2], y[2])
         IN  Result(Sgn(x[1]) * Sgn(y[1]) * (IAbs(x[1]) \div g1) * (y[2] \div g2),
                    (x[2] \div g2) * (IAbs(y[1]) \div g1), x[3] + y[3] > 0))

\* Comparisons read the value only; every comparison with NaN is false.
Eq(x, y) == ~IsNaN(x) /\ ~IsNaN(y) /\ x[1] = y[1] /\ x[2] = y[2]
Ne(x, y) == ~Eq(x, y)

Lt(x, y) ==
    /\ ~IsNaN(x)
    /\ ~IsNaN(y)
    /\ IF x[2] = 0 /\ y[2] = 0 THEN x[1] < y[1] ELSE x[1] * y[2] < y[1] * x[2]

Le(x, y) == Lt(x, y) \/ Eq(x, y)
Gt(x, y) == Lt(y, x)
Ge(x, y) == Le(y, x)

RAbs(x) == <<IAbs(x[1]), x[2], x[3]>>

Zero == I(0)
One == I(1)
Two == I(2)

RECURSIVE Isqrt(_)
Isqrt(n) ==
    IF n < 2 THEN n
    ELSE LET s == 2 * Isqrt(n \div 4)
         IN  IF (s + 1) * (s + 1) <= n THEN s + 1 ELSE s

IsSquare(n) == n >= 0 /\ Isqrt(n) * Isqrt(n) = n

\* The square root is exact on an exact quotient of squares and rounded
\* elsewhere.
Sqrt(x0) ==
    Let(x0, LAMBDA x :
    IF IsNaN(x) \/ x[1] < 0 THEN NaN
    ELSE IF x[2] = 0 THEN PosInf
    ELSE IF IsExact(x) /\ IsSquare(x[1]) /\ IsSquare(x[2]) THEN Rat(Isqrt(x[1]), Isqrt(x[2]))
    ELSE Rounded(Isqrt((x[1] * SqrtGrid * SqrtGrid) \div x[2]), SqrtGrid))

(***************************************************************************)
(* Option<T>, and the outcome of a failed assert!                          *)
(***************************************************************************)
None == [some |-> FALSE]
Some(v) == [some |-> TRUE, val |-> v]
Panic == [some |-> FALSE, panic |-> TRUE]

(***************************************************************************)
(* algebra.rs: Vec3 (glm::DVec3 in shape.rs and camera.rs computes the     *)
(* same component-wise operations)                                         *)
(***************************************************************************)
Vec3_new(x, y, z) == <<x, y, z>>

\* A vector with integer components.
VI(x, y, z) == <<I(x), I(y), I(z)>>

Vec3_zero == VI(0, 0, 0)

Vec3_add(a0, b0) ==
    Let(<<a0, b0>>, LAMBDA p :
        <<Add(p[1][1], p[2][1]), Add(p[1][2], p[2][2]), Add(p[1][3], p[2][3])>>)

Vec3_sub(a0, b0) ==
    Let(<<a0, b0>>, LAMBDA p :
        <<Sub(p[1][1], p[2][1]), Sub(p[1][2], p[2][2]), Sub(p[1][3], p[2][3])>>)

Vec3_mul(scalar, v) ==
    Let(<<scalar, v>>, LAMBDA p :
        <<Mul(p[1], p[2][1]), Mul(p[1], p[2][2]), Mul(p[1], p[2][3])>>)

Vec3_neg(v) == <<Neg(v[1]), Neg(v[2]), Neg(v[3])>>

Vec3_dot(a, b) == Add(Add(Mul(a[1], b[1]), Mul(a[2], b[2])), Mul(a[3], b[3]))

Vec3_cross(a, b) ==
    <<Sub(Mul(a[2], b[3]), Mul(a[3], b[2])),
      Sub(Mul(a[3], b[1]), Mul(a[1], b[3])),
      Sub(Mul(a[1], b[2]), Mul(a[2], b[1]))>>

Vec3_norm2(v0) ==
    Let(v0, LAMBDA v : Add(Add(Mul(v[1], v[1]), Mul(v[2], v[2])), Mul(v[3], v[3])))

Vec3_norm(v) == Sqrt(Vec3_norm2(v))

\* The normalised copy: each component divided by the norm (NaN for the zero vector).
Vec3_normal(v0) ==
    Let(v0, LAMBDA v :
        Let(Vec3_norm(v), LAMBDA norm : <<Div(v[1], norm), Div(v[2], norm), Div(v[3], norm)>>))

\* x.powf(2.0)
Powf2(x) == Mul(x, x)

(***************************************************************************)
(* light.rs: Ray                                                           *)
(***************************************************************************)
Ray_new(origin, direction, wavelength) ==
    [origin |-> origin, direction |-> Vec3_normal(direction), wavelength |-> wavelength]

\* A ray built field by field, as shape.rs's tests do: the direction is stored as given.
Ray_literal(origin, direction, wavelength) ==
    [origin |-> origin, direction |-> direction, wavelength |-> wavelength]

Ray_point_at(ray, t) == Vec3_add(ray.origin, Vec3_mul(t, ray.direction))

(***************************************************************************)
(* algebra.rs: the quadratic solver                                        *)
(***************************************************************************)
\* The two roots for a positive discriminant, sorted.
sorted_roots(a, b, discriminant) ==
    Let(Sqrt(discriminant), LAMBDA sqrt_discriminant :
    Let(Div(Add(Neg(b), sqrt_discriminant), Mul(Two, a)), LAMBDA x1 :
    Let(Div(Sub(Neg(b), sqrt_discriminant), Mul(Two, a)), LAMBDA x2 :
        \* Sort solutions
        IF Le(x1, x2) THEN Some(<<x1, x2>>) ELSE Some(<<x2, x1>>))))

\* The two roots as computed, without the sort.
unsorted_roots(a, b, discriminant) ==
    Let(Sqrt(discriminant), LAMBDA sqrt_discriminant :
        Some(<<Div(Add(Neg(b), sqrt_discriminant), Mul(Two, a)),
               Div(Sub(Neg(b), sqrt_discriminant), Mul(Two, a))>>))

repeated_root(x) == Some(<<x, x>>)

\* The solver without the final sort of the two roots.
solve_deg2_eq_unsorted(a, b, c) ==
    IF Ne(a, Zero)
    THEN Let(Sub(Mul(b, b), Mul(Mul(I(4), a), c)), LAMBDA discriminant :
             IF Gt(discriminant, Zero) THEN unsorted_roots(a, b, discriminant)
             ELSE IF Eq(discriminant, Zero) THEN repeated_root(Div(Neg(b), Mul(Two, a)))
             ELSE None)
    ELSE IF Ne(b, Zero) THEN repeated_root(Div(Neg(c), b))
         ELSE None

\* The solver without its linear case.
solve_deg2_eq_nolinear(a, b, c) ==
    IF Ne(a, Zero) THEN solve_deg2_eq_unsorted(a, b, c) ELSE None

solve_deg2_eq(a, b, c) ==
    IF Ne(a, Zero)
    THEN Let(Sub(Mul(b, b), Mul(Mul(I(4), a), c)), LAMBDA discriminant :
             IF Gt(discriminant, Zero) THEN sorted_roots(a, b, discriminant)
             ELSE IF Eq(discriminant, Zero) THEN repeated_root(Div(Neg(b), Mul(Two, a)))
             ELSE None)
    ELSE IF Ne(b, Zero) THEN repeated_root(Div(Neg(c), b))
         ELSE None

(***************************************************************************)
(* The root selectors of shape.rs and geometry.rs                          *)
(***************************************************************************)
\* The selector with strict comparisons: a root equal to 0 is no hit.
closest_facing_solution_strict(t) ==
    IF ~Le(t[1], t[2]) THEN Panic
    ELSE IF Gt(t[1], Zero) THEN Some(t[1])
    ELSE IF Gt(t[2], Zero) THEN Some(t[2])
    ELSE None

closest_facing_solution(t) ==
    IF ~Le(t[1], t[2]) THEN Panic      \* assert!(t1 <= t2)
    ELSE IF Ge(t[1], Zero) THEN Some(t[1])
    ELSE IF Ge(t[2], Zero) THEN Some(t[2])
    ELSE None

closest_sol(x) ==
    \* Assume x1 <= x2
    IF Lt(x[1], Zero)
    THEN IF Lt(x[2], Zero) THEN None ELSE Some(x[2])
    ELSE Some(x[1])

(***************************************************************************)
(* shape.rs: hit records, Sphere, Plane, Triangle                          *)
(***************************************************************************)
HitRecord(ray_t, point, normal) == [ray_t |-> ray_t, point |-> point, normal |-> normal]

\* f64::EPSILON is 2^-52; the model carries 1/EpsilonDen in its place so that
\* values below, at and above the threshold can be enumerated.
EpsilonDen == 1024

EPSILON == Rat(1, EpsilonDen)

Sphere_new(center, radius) == [center |-> center, radius |-> radius]

Sphere_normal(sphere, intersection, direction) ==
    \* -(d*n)n / |(d*n)n|
    Let(Vec3_sub(sphere.center, intersection), LAMBDA surf_normal :
        Vec3_normal(Vec3_mul(Vec3_dot(direction, surf_normal), surf_normal)))

\* The coefficients of the ray/sphere quadratic.
Sphere_coefficients(sphere, ray) ==
    Let(Vec3_sub(ray.origin, sphere.center), LAMBDA oc :
        [a |-> Powf2(Vec3_norm(ray.direction)),
         b |-> Mul(Two, Vec3_dot(oc, ray.direction)),
         c |-> Sub(Powf2(Vec3_norm(oc)), Powf2(sphere.radius))])

Sphere_solutions(sphere, ray) ==
    Let(Sphere_coefficients(sphere, ray), LAMBDA q : solve_deg2_eq(q.a, q.b, q.c))

\* The hit record at ray parameter t.
Sphere_hit(sphere, ray, t) ==
    Let(Ray_point_at(ray, t), LAMBDA point :
        Some(HitRecord(t, point, Sphere_normal(sphere, point, ray.direction))))

\* Sphere::intersect taking the first root whatever its sign.
Sphere_intersect_firstroot(sphere, ray) ==
    Let(Sphere_solutions(sphere, ray), LAMBDA solutions :
        IF ~solutions.some THEN None ELSE Sphere_hit(sphere, ray, solutions.val[1]))

Sphere_intersect(sphere, ray) ==
    Let(Sphere_solutions(sphere, ray), LAMBDA solutions :
        IF ~solutions.some THEN None
        ELSE Let(closest_facing_solution(solutions.val), LAMBDA t :
                 IF ~t.some THEN t      \* None (or the assert's panic)
                 ELSE Sphere_hit(sphere, ray, t.val)))

Plane_new(position, normal) == [position |-> position, normal |-> normal]

Plane_hit(plane, ray, t) ==
    Some(HitRecord(t, Vec3_add(ray.origin, Vec3_mul(t, ray.direction)), plane.normal))

\* Plane::intersect accepting a hit behind the ray origin.
Plane_intersect_behind(plane, ray) ==
    Let(Vec3_dot(ray.direction, plane.normal), LAMBDA denom :
        IF Gt(RAbs(denom), EPSILON)
        THEN Plane_hit(plane, ray,
                       Div(Vec3_dot(Vec3_sub(plane.position, ray.origin), plane.normal), denom))
        ELSE None)

Plane_intersect(plane, ray) ==
    Let(Vec3_dot(ray.direction, plane.normal), LAMBDA denom :
        IF Gt(RAbs(denom), EPSILON)
        THEN Let(Div(Vec3_dot(Vec3_sub(plane.position, ray.origin), plane.normal), denom),
                 LAMBDA t : IF Ge(t, Zero) THEN Plane_hit(plane, ray, t) ELSE None)
        ELSE None)

Triangle_new(a, b, c) ==
    [va |-> a, vb |-> b, vc |-> c,
     normal |-> Vec3_normal(Vec3_cross(Vec3_sub(c, a), Vec3_sub(b, a)))]

Triangle_hit(tri, ray, t) ==
    Some(HitRecord(t, Vec3_add(ray.origin, Vec3_mul(t, ray.direction)), tri.normal))

\* The Moeller-Trumbore quantities: the determinant a and, for a # 0, the
\* barycentric coordinates u, v and the ray parameter t.
Triangle_solve(tri, ray) ==
    Let(Vec3_sub(tri.vb, tri.va), LAMBDA edge1 :
    Let(Vec3_sub(tri.vc, tri.va), LAMBDA edge2 :
    Let(Vec3_cross(ray.direction, edge2), LAMBDA h :
    Let(Vec3_dot(edge1, h), LAMBDA a :
    Let(Div(One, a), LAMBDA f :
    Let(Vec3_sub(ray.origin, tri.va), LAMBDA s :
    Let(Vec3_cross(s, edge1), LAMBDA q :
        [a |-> a,
         u |-> Mul(f, Vec3_dot(s, h)),
         v |-> Mul(f, Vec3_dot(ray.direction, q)),
         t |-> Mul(f, Vec3_dot(edge2, q))])))))))

\* Triangle::intersect without the test u + v > 1.
Triangle_intersect_nosum(tri, ray) ==
    Let(Triangle_solve(tri, ray), LAMBDA m :
        IF Lt(RAbs(m.a), EPSILON) THEN None
        ELSE IF Lt(m.u, Zero) \/ Gt(m.u, One) THEN None
        ELSE IF Lt(m.v, Zero) THEN None
        ELSE IF Gt(m.t, EPSILON) THEN Triangle_hit(tri, ray, m.t)
        ELSE None)

Triangle_intersect(tri, ray) ==
    Let(Triangle_solve(tri, ray), LAMBDA m :
        IF Lt(RAbs(m.a), EPSILON) THEN None     \* The ray is parallel to this triangle.
        ELSE IF Lt(m.u, Zero) \/ Gt(m.u, One) THEN None
        ELSE IF Lt(m.v, Zero) \/ Gt(Add(m.u, m.v), One) THEN None
        ELSE IF Gt(m.t, EPSILON) THEN Triangle_hit(tri, ray, m.t)
        ELSE None)

(***************************************************************************)
(* geometry.rs: Sphere as an Intersectable                                 *)
(***************************************************************************)
geometry_Sphere_intersect(sphere, ray) ==
    Let(Sphere_solutions(sphere, ray), LAMBDA solutions :
        IF ~solutions.some THEN None ELSE closest_sol(solutions.val))

geometry_Sphere_hit_normal(sphere, intersection, direction) ==
    \* -(d*n)n / |(d*n)n|
    Let(Vec3_sub(sphere.center, intersection), LAMBDA surf_normal :
        Vec3_normal(Vec3_mul(Vec3_dot(direction, surf_normal), surf_normal)))

\* What a caller of geometry.rs builds from the ray parameter (geometry.rs:93-95,
\* render.rs:182 and :211): the point and the normal there.
geometry_Sphere_hit(sphere, ray, t) ==
    Let(Ray_point_at(ray, t), LAMBDA point :
        Some(HitRecord(t, point, geometry_Sphere_hit_normal(sphere, point, ray.direction))))

(***************************************************************************)
(* camera.rs: angles                                                       *)
(*                                                                         *)
(* An angle is [k, t]: the angle 2*pi*k + 2*atan(t), with t a scalar in    *)
(* (-inf, +inf]; t = +inf is the odd multiple (2k + 1)*pi, and t = NaN is  *)
(* the NaN angle.  The model's pi is the program's constant PI.  On this   *)
(* grid the trigonometric functions are rational in t.                     *)
(***************************************************************************)
Angle(k, t) == [k |-> k, t |-> t]

Angle_zero == Angle(0, Zero)
Angle_PI == Angle(0, PosInf)
Angle_NaN == Angle(0, NaN)

Angle_is_nan(a) == IsNaN(a.t)

\* a > 0.0, a < 0.0, a != 0.0
Angle_gt_zero(a) == ~Angle_is_nan(a) /\ (a.k > 0 \/ (a.k = 0 /\ Gt(a.t, Zero)))
Angle_lt_zero(a) == ~Angle_is_nan(a) /\ (a.k < 0 \/ (a.k = 0 /\ Lt(a.t, Zero)))
Angle_ne_zero(a) == Angle_is_nan(a) \/ a.k # 0 \/ Ne(a.t, Zero)

\* a <= 0.0
Angle_le_zero(a) == ~Angle_is_nan(a) /\ ~Angle_gt_zero(a)

\* a > PI: 2*pi*k + 2*atan(t) with k = 0 is at most pi, with k >= 1 above pi.
Angle_gt_PI(a) == ~Angle_is_nan(a) /\ a.k >= 1

Angle_neg(a) ==
    IF Angle_is_nan(a) THEN a
    ELSE IF a.t = PosInf THEN Angle(-a.k - 1, PosInf)
    ELSE Angle(-a.k, Neg(a.t))

\* f64::abs
Angle_abs(a) == IF Angle_lt_zero(a) THEN Angle_neg(a) ELSE a

\* The value of (PI / 2.0).tan() in f64: finite, of the order of 2^53.
\* The model keeps it finite and rounded, on its own scale.
TanHalfPi == Inexact(I(2^20))

\* (a / 2.0).tan()
Angle_tan_half(a) == IF a.t = PosInf THEN TanHalfPi ELSE a.t

Angle_cos(a) ==
    IF Angle_is_nan(a) THEN NaN
    ELSE IF a.t = PosInf THEN I(-1)
    ELSE Div(Sub(One, Mul(a.t, a.t)), Add(One, Mul(a.t, a.t)))

Angle_sin(a) ==
    IF Angle_is_nan(a) THEN NaN
    ELSE IF a.t = PosInf THEN Zero
    ELSE Div(Mul(Two, a.t), Add(One, Mul(a.t, a.t)))

\* glm::rotate_vec3(v, angle, normal): v turned by angle around the axis normal.
rotate_vec3(v, angle, normal) ==
    Let(Vec3_normal(normal), LAMBDA axis :
    Let(Angle_cos(angle), LAMBDA c :
        Vec3_add(Vec3_add(Vec3_mul(c, v),
                          Vec3_mul(Angle_sin(angle), Vec3_cross(axis, v))),
                 Vec3_mul(Mul(Vec3_dot(axis, v), Sub(One, c)), axis))))

(***************************************************************************)
(* camera.rs: u32 arithmetic.  A u32 is <<hi, lo>>, two 16-bit limbs.      *)
(***************************************************************************)
Limb == 65536

U32(n) == <<n \div Limb, n % Limb>>

\* The product of two limbs as <<hi, lo>>.
Limb_mul(x, y) ==
    Let(x * (y \div 256), LAMBDA upper :
    Let((upper % 256) * 256 + x * (y % 256), LAMBDA lower :
        <<(upper \div 256) + (lower \div Limb), lower % Limb>>))

\* x * y on u32: the product modulo 2^32 and whether it overflowed.
U32_mul(x, y) ==
    Let(Limb_mul(x[2], y[2]), LAMBDA ll :
    Let(Limb_mul(x[1], y[2]), LAMBDA hl :
    Let(Limb_mul(x[2], y[1]), LAMBDA lh :
    Let(ll[1] + hl[2] + lh[2], LAMBDA mid :
        [value |-> <<mid % Limb, ll[2]>>,
         overflow |-> \/ (x[1] # 0 /\ y[1] # 0)
                      \/ hl[1] # 0 \/ lh[1] # 0
                      \/ mid >= Limb]))))

\* x as f64
U32_as_f64(x) == I(x[1] * Limb + x[2])

(***************************************************************************)
(* camera.rs: Camera                                                       *)
(***************************************************************************)
Horizontal(alpha) == [kind |-> "Horizontal", alpha |-> alpha]
Vertical(alpha) == [kind |-> "Vertical", alpha |-> alpha]

\* 90.0_f64.to_radians()
FieldOfView_default == Vertical(Angle(0, One))

PinHole == [kind |-> "PinHole"]
FocalPlane(focal_distance, aperture) ==
    [kind |-> "FocalPlane", focal_distance |-> focal_distance, aperture |-> aperture]

CoordinateSystem_new(origin, u, v, w) == [origin |-> origin, u |-> u, v |-> v, w |-> w]

\* #[derive(Default)] on Camera
Camera_default ==
    [coordinate_system |-> CoordinateSystem_new(Vec3_zero, Vec3_zero, Vec3_zero, Vec3_zero),
     rotation |-> Angle_zero,
     resolution |-> <<U32(0), U32(0)>>,
     fov |-> FieldOfView_default,
     focus_mode |-> PinHole,
     distance_to_plane |-> Zero,
     first_pixel_pos |-> Vec3_zero,
     pixel_width |-> Zero,
     pixel_height |-> Zero]

Ok == [ok |-> TRUE]
Err(msg) == [ok |-> FALSE, err |-> msg]
\* The panic of an arithmetic overflow in a build with overflow checks.
Overflow_panic == [ok |-> FALSE, panic |-> "attempt to multiply with overflow"]

Returned(self, result) == [camera |-> self, result |-> result]

WORLD_UP == VI(0, 1, 0)

\* The last step of config with the first pixel placed relative to the
\* camera's earlier first_pixel_pos (+= in place of =).
Camera_config_pixels_accumulate(self, config, width, height) ==
    Let(width, LAMBDA sensor_width :
    Let(height, LAMBDA sensor_height :
    Let(Div(sensor_width, U32_as_f64(self.resolution[1])), LAMBDA pixel_width :
    Let(Div(sensor_height, U32_as_f64(self.resolution[2])), LAMBDA pixel_height :
        Returned(
            [self EXCEPT
                !.focus_mode = config.focus_mode,
                !.pixel_width = pixel_width,
                !.pixel_height = pixel_height,
                !.first_pixel_pos =
                    Vec3_add(
                        Vec3_sub(
                            Vec3_add(Vec3_add(self.first_pixel_pos, self.coordinate_system.origin),
                                     Vec3_mul(self.distance_to_plane, self.coordinate_system.w)),
                            Vec3_mul(Sub(Div(sensor_width, Two), Div(pixel_width, Two)),
                                     self.coordinate_system.u)),
                        Vec3_mul(Sub(Div(sensor_height, Two), Div(pixel_height, Two)),
                                 self.coordinate_system.v))],
            Ok)))))

\* config, camera.rs:226-235: the pixel size and the position of the first
\* pixel, and Ok(()).
Camera_config_pixels(self, config, width, height) ==
    Let(width, LAMBDA sensor_width :
    Let(height, LAMBDA sensor_height :
    Let(Div(sensor_width, U32_as_f64(self.resolution[1])), LAMBDA pixel_width :
    Let(Div(sensor_height, U32_as_f64(self.resolution[2])), LAMBDA pixel_height :
        Returned(
            [self EXCEPT
                !.focus_mode = config.focus_mode,
                !.pixel_width = pixel_width,
                !.pixel_height = pixel_height,
                !.first_pixel_pos =
                    Vec3_add(
                        Vec3_sub(
                            Vec3_add(self.coordinate_system.origin,
                                     Vec3_mul(self.distance_to_plane, self.coordinate_system.w)),
                            Vec3_mul(Sub(Div(sensor_width, Two), Div(pixel_width, Two)),
                                     self.coordinate_system.u)),
                        Vec3_mul(Sub(Div(sensor_height, Two), Div(pixel_height, Two)),
                                 self.coordinate_system.v))],
            Ok)))))

\* config, camera.rs:187-223: the distance to the plane and the sensor size,
\* on a camera whose fov, resolution, rotation and basis are already set.
Camera_config_focus(self, config) ==
    Let(Div(U32_as_f64(self.resolution[1]), U32_as_f64(self.resolution[2])), LAMBDA aspect_ratio :
    Let(Mul(Two, Angle_tan_half(self.fov.alpha)), LAMBDA two_tan :
        IF config.focus_mode.kind = "FocalPlane"
        THEN IF Lt(config.focus_mode.focal_distance, Zero)
             THEN Returned(self, Err("Focal distance must be postive"))
             ELSE IF Lt(config.focus_mode.aperture, Zero)
             THEN Returned(self, Err("Aperture must be postive"))
             ELSE Let(Mul(config.focus_mode.focal_distance, two_tan), LAMBDA side :
                  Let([self EXCEPT !.distance_to_plane = config.focus_mode.focal_distance],
                      LAMBDA placed :
                      IF self.fov.kind = "Horizontal"
                      THEN Camera_config_pixels(placed, config, side, Div(side, aspect_ratio))
                      ELSE Camera_config_pixels(placed, config, Mul(side, aspect_ratio), side)))
        ELSE Let([self EXCEPT !.distance_to_plane =
                     IF self.fov.kind = "Horizontal"
                     THEN Div(Mul(One, aspect_ratio), two_tan)
                     ELSE Div(One, two_tan)],
                 LAMBDA placed :
                 Camera_config_pixels(placed, config, Mul(One, aspect_ratio), One))))

\* config, camera.rs:161-184: the basis (u, v, w) and the roll around w.
Camera_basis(config) ==
    Let(Vec3_normal(config.direction), LAMBDA w :
    Let(Vec3_normal(Vec3_cross(w, WORLD_UP)), LAMBDA u :
    Let(Vec3_normal(Vec3_cross(u, w)), LAMBDA v :
        IF Angle_ne_zero(config.rotation)
        THEN CoordinateSystem_new(config.position,
                                  Vec3_normal(rotate_vec3(u, config.rotation, w)),
                                  Vec3_normal(rotate_vec3(v, config.rotation, w)),
                                  w)
        ELSE CoordinateSystem_new(config.position, u, v, w))))

Fov_error(kind) ==
    IF kind = "Horizontal"
    THEN "Horizontal field of view must be in the interval (0, 180)"
    ELSE "Vertical field of view must be in the interval (0, 180)"

\* Camera::config on the camera self, in a build with ("debug") or without
\* ("release") overflow checks: the camera it leaves and what it returns.
Camera_config(self, config, build) ==
    Let(U32_mul(config.resolution[1], config.resolution[2]), LAMBDA area :
        IF area.overflow /\ build = "debug" THEN Returned(self, Overflow_panic)
        ELSE IF area.value = U32(0)
        THEN Returned(self, Err("The camera resolution cannot be zero"))
        ELSE Let(Angle_abs(config.fov.alpha), LAMBDA alpha :
                 IF Angle_le_zero(alpha) \/ Angle_gt_PI(alpha)
                 THEN Returned(self, Err(Fov_error(config.fov.kind)))
                 ELSE Let([self EXCEPT !.fov = [kind |-> config.fov.kind, alpha |-> alpha],
                                       !.resolution = config.resolution,
                                       !.rotation = config.rotation,
                                       !.coordinate_system = Camera_basis(config)],
                          LAMBDA oriented : Camera_config_focus(oriented, config))))

\* ray.rs: Ray::new(origin, direction), the constructor camera.rs calls.
Ray_new2(origin, direction) == [origin |-> origin, direction |-> Vec3_normal(direction)]

\* i >= n on u32
U32_ge(x, y) == x[1] > y[1] \/ (x[1] = y[1] /\ x[2] >= y[2])

\* The origin of a cast ray: the camera position, moved in FocalPlane mode
\* by aperture * (x*u + y*v) for the sample [x, y] of the unit disc.
Camera_ray_origin(self, sample) ==
    IF self.focus_mode.kind = "PinHole" THEN self.coordinate_system.origin
    ELSE Vec3_add(self.coordinate_system.origin,
                  Vec3_mul(self.focus_mode.aperture,
                           Vec3_add(Vec3_mul(sample[1], self.coordinate_system.u),
                                    Vec3_mul(sample[2], self.coordinate_system.v))))

Camera_pixel_position(self, i, j) ==
    Vec3_sub(Vec3_add(self.first_pixel_pos,
                      Vec3_mul(Mul(U32_as_f64(i), self.pixel_width), self.coordinate_system.u)),
             Vec3_mul(Mul(U32_as_f64(j), self.pixel_height), self.coordinate_system.v))

\* cast_ray with the bounds test written with > in place of >=.
Camera_cast_ray_offbyone(self, i, j, sample) ==
    IF ~U32_ge(self.resolution[1], i) \/ ~U32_ge(self.resolution[2], j) THEN None
    ELSE Let(Camera_ray_origin(self, sample), LAMBDA ray_origin :
             Some(Ray_new2(ray_origin, Vec3_sub(Camera_pixel_position(self, i, j), ray_origin))))

\* Camera::cast_ray(i, j, rng), with sample the value the rng yields.
Camera_cast_ray(self, i, j, sample) ==
    IF U32_ge(i, self.resolution[1]) \/ U32_ge(j, self.resolution[2]) THEN None
    ELSE Let(Camera_ray_origin(self, sample), LAMBDA ray_origin :
             Some(Ray_new2(ray_origin, Vec3_sub(Camera_pixel_position(self, i, j), ray_origin))))

(***************************************************************************)
(* spectrum.rs: Spectrum                                                   *)
(***************************************************************************)
\* Spectrum::new(wavelengths): the powers start at zero.
Spectrum_new(wavelengths) ==
    [wavelengths |-> wavelengths,
     powers |-> [k \in 1..Len(wavelengths) |-> Zero],
     size |-> Len(wavelengths)]

\* spectrum[index] = value (IndexMut); indices count from 0 as in the source.
Spectrum_index_mut(self, index, value) ==
    IF index >= Len(self.powers) THEN Panic
    ELSE [self EXCEPT !.powers[index + 1] = value]

\* The loop of find_wavelength_index from position index on: the first
\* index whose wavelength lies below the argument.
RECURSIVE find_wavelength_index_from(_, _, _)
find_wavelength_index_from(wavelengths, wavelength, index) ==
    IF index >= Len(wavelengths) THEN None
    ELSE IF Gt(wavelength, wavelengths[index + 1]) THEN Some(index)
    ELSE find_wavelength_index_from(wavelengths, wavelength, index + 1)

Spectrum_find_wavelength_index(self, wavelength) ==
    IF Len(self.wavelengths) < 2 THEN None
    ELSE IF Lt(wavelength, self.wavelengths[1])
            \/ Gt(wavelength, self.wavelengths[Len(self.wavelengths)]) THEN None
    ELSE find_wavelength_index_from(self.wavelengths, wavelength, 0)

\* algebra::linear_interpolation(x0, x1, y0, y1, x): the value at x of the
\* line through (x0, y0) and (x1, y1).
linear_interpolation(x0, x1, y0, y1, x) ==
    Add(y0, Div(Mul(Sub(y1, y0), Sub(x, x0)), Sub(x1, x0)))

Spectrum_interpolate_at(self, wavelength) ==
    IF self.size = 1 /\ Eq(wavelength, self.wavelengths[1]) THEN Some(self.wavelengths[1])
    ELSE IF self.size > 1
    THEN Let(Spectrum_find_wavelength_index(self, wavelength), LAMBDA found :
             IF found = None THEN None
             ELSE IF found.val + 2 > Len(self.wavelengths) THEN Panic
             ELSE Some(linear_interpolation(self.wavelengths[found.val + 1],
                                            self.wavelengths[found.val + 2],
                                            self.powers[found.val + 1],
                                            self.powers[found.val + 2],
                                            wavelength)))
    ELSE None

\* Option::unwrap_or
unwrap_or(option, default) == IF option = None THEN default ELSE option.val

(***************************************************************************)
(* material.rs, scene.rs: materials and the scene                          *)
(***************************************************************************)
MaterialProperties(emission, absorption) ==
    [emission |-> emission, absorption |-> absorption,
     transmitance |-> Zero, roughness |-> Zero, refraction_index |-> Zero]

Scene_new == [objects |-> <<>>]

Scene_add_object(self, object) == [self EXCEPT !.objects = Append(@, object)]

(***************************************************************************)
(* render.rs: PathTracer                                                   *)
(***************************************************************************)
DEFAULT_SPP == 128
DEFAULT_HALF_LIFE == 5

Fix(max_rays) == [kind |-> "Fix", n |-> max_rays]
HalfLife(lambda) == [kind |-> "HalfLife", n |-> lambda]

RECURSIVE IPow(_, _)
IPow(b, n) == IF n = 0 THEN 1 ELSE b * IPow(b, n - 1)

\* e^(-ln 2 / lambda) = (1/2)^(1/lambda), rounded down to the grid; for
\* lambda = 0 the exponent is -inf and the power 0.
calculate_propagation_prob_for_half_life(lambda) ==
    IF lambda = 0 THEN Zero
    ELSE Let(CHOOSE k \in 0..SqrtGrid :
                 /\ 2 * IPow(k, lambda) <= IPow(SqrtGrid, lambda)
                 /\ 2 * IPow(k + 1, lambda) > IPow(SqrtGrid, lambda),
             LAMBDA k : IF 2 * IPow(k, lambda) = IPow(SqrtGrid, lambda)
                        THEN Rat(k, SqrtGrid)
                        ELSE Inexact(Rat(k, SqrtGrid)))

PathTracer(samples_per_pixel, ray_extinction) ==
    [samples_per_pixel |-> samples_per_pixel,
     ray_extinction |-> ray_extinction,
     propagation_probability |->
         IF ray_extinction.kind = "HalfLife"
         THEN calculate_propagation_prob_for_half_life(ray_extinction.n)
         ELSE calculate_propagation_prob_for_half_life(DEFAULT_HALF_LIFE)]

PathTracer_default == PathTracer(DEFAULT_SPP, HalfLife(DEFAULT_HALF_LIFE))

\* should_extinguish with a Fix policy that allows one bounce more.
PathTracer_should_extinguish_late(self, counter, q) ==
    IF self.ray_extinction.kind = "Fix" THEN counter > self.ray_extinction.n + 1
    ELSE Lt(self.propagation_probability, q)

\* should_extinguish(counter, rng), q being the number the rng yields.
PathTracer_should_extinguish(self, counter, q) ==
    IF self.ray_extinction.kind = "Fix" THEN counter > self.ray_extinction.n
    ELSE Lt(self.propagation_probability, q)

\* The record of a path: how often the scene was intersected, and what the
\* last intersection found.
Path_new == [intersections |-> 0, hit |-> None]

\* No render in progress: the state of the renderer in the behaviours that
\* do not render.  thread_rng is the state of the thread-local generator
\* behind rand::thread_rng(), recorded as the pixels whose render_pixel call
\* has advanced it.
RenderIdle ==
    /\ spectrum = Spectrum_new(<<>>)
    /\ scene = Scene_new
    /\ tracer = PathTracer_default
    /\ stack = <<>>
    /\ path = Path_new
    /\ thread_rng = {}

\* spectrum_to_rgb(&spectrum): the body is todo!(), which panics.
spectrum_to_rgb(s) == Panic

\* A ray of the renderer.  The object module (MaterialObject::intersect) is
\* no part of the sources, so a ray carries, next to its wavelength, what
\* obj.intersect(&ray) yields for each object of the scene.
TracedRay(ray, hits) ==
    [origin |-> ray.origin, direction |-> ray.direction, wavelength |-> ray.wavelength,
     hits |-> hits]

\* calculate_next_ray that starts the next ray where the incident ray
\* started.
PathTracer_calculate_next_ray_restart(intersection, incident_ray, sample_direction) ==
    Ray_new(incident_ray.origin, sample_direction, incident_ray.wavelength)

\* calculate_next_ray(&point, incident_ray, object, rng), sample_direction
\* being what sample_hemisphere yields for the normal of the object.
PathTracer_calculate_next_ray(intersection, incident_ray, sample_direction) ==
    Ray_new(intersection, sample_direction, incident_ray.wavelength)

\* intersect_ray keeping the first intersected object in the order of
\* insertion, without the sort by t.
PathTracer_intersect_ray_unsorted(ray, s) ==
    {k \in 1..Len(s.objects) :
        /\ ray.hits[k] # None
        /\ \A m \in 1..(k - 1) : ray.hits[m] = None}

\* intersect_ray(ray, scene): the objects that can come first after the
\* sort by t (sort_unstable leaves the order of equal t open); the empty set
\* stands for None.
PathTracer_intersect_ray(ray, s) ==
    {k \in 1..Len(s.objects) :
        /\ ray.hits[k] # None
        /\ \A m \in 1..Len(s.objects) :
              ray.hits[m] # None => Le(ray.hits[k].val, ray.hits[m].val)}

\* e of propagate_ray: the emission at the wavelength, 0.0 without one.
Material_e(material, wavelength) ==
    IF material.emission = None THEN Zero
    ELSE unwrap_or(Spectrum_interpolate_at(material.emission.val, wavelength), Zero)

\* t of propagate_ray: 1.0 where the absorption spectrum has no value at
\* the wavelength, 0.0 where the material has no absorption spectrum.
Material_t(material, wavelength) ==
    IF material.absorption = None THEN Zero
    ELSE unwrap_or(Spectrum_interpolate_at(material.absorption.val, wavelength), One)

\* The frame of a propagate_ray call that has just been entered.
PropagateFrame(ray, counter) ==
    [fn |-> "propagate_ray", pc |-> "enter", ray |-> ray, counter |-> counter]

\* The frame of a propagate_ray call that waits, at
\* e + t * self.propagate_ray(..), for the call it made.
RecurseFrame(counter, e, t) ==
    [fn |-> "propagate_ray", pc |-> "recurse", counter |-> counter, e |-> e, t |-> t]

\* The frame of render_pixel(i, j, ..) before its sample-th sample.
RenderPixelFrame(i, j, wavelengths) ==
    [fn |-> "render_pixel", i |-> i, j |-> j, wavelengths |-> wavelengths,
     sample |-> 0, wavelength_index |-> 0, power |-> Zero]

\* The frame of render: image.enumerate_pixels_mut() has yielded `pixel`
\* pixels of an image of width x height.
RenderFrame(width, height, wavelengths) ==
    [fn |-> "render", width |-> width, height |-> height,
     wavelengths |-> wavelengths, pixel |-> 0]

Top(frames) == frames[Len(frames)]
Pop(frames) == SubSeq(frames, 1, Len(frames) - 1)

\* A propagate_ray call returns power to the frames below it: every waiting
\* propagate_ray frame returns e + t * power in turn, down to the caller
\* that is not a propagate_ray frame.
RECURSIVE Unwind(_, _)
Unwind(frames, power) ==
    IF frames = <<>> \/ Top(frames).fn # "propagate_ray"
    THEN [stack |-> frames, power |-> power]
    ELSE Unwind(Pop(frames), Add(Top(frames).e, Mul(Top(frames).t, power)))

\* The accumulation without the division by samples_per_pixel.
Spectrum_accumulate_undivided(self, wavelength_index, power, samples_per_pixel) ==
    Spectrum_index_mut(self, wavelength_index, Add(self.powers[wavelength_index + 1], power))

\* spectrum[wavelength_index] += power / (samples_per_pixel as f32)
Spectrum_accumulate(self, wavelength_index, power, samples_per_pixel) ==
    Spectrum_index_mut(self, wavelength_index,
                       Add(self.powers[wavelength_index + 1], Div(power, I(samples_per_pixel))))

\* u32 as a number
U32_value(x) == x[1] * Limb + x[2]

(***************************************************************************)
(* SpecAlgebra: the solver and the selectors on drawn inputs               *)
(***************************************************************************)
\* Coefficients and roots range over the integers -MaxCoef..MaxCoef and the
\* halves between them.
MaxCoef == 3

Coefs == {I(n) : n \in -MaxCoef..MaxCoef}

Roots == {Rat(n, 2) : n \in -(2 * MaxCoef)..(2 * MaxCoef)} \cup {NaN, PosInf, NegInf}

AlgebraInputs ==
    {[fn |-> "solve_deg2_eq", a |-> a, b |-> b, c |-> c] : a \in Coefs, b \in Coefs, c \in Coefs}
    \cup {[fn |-> "closest", t |-> <<t1, t2>>] : t1 \in Roots, t2 \in Roots}

Pending == [pending |-> TRUE]

InitAlgebra ==
    /\ args \in AlgebraInputs
    /\ op = "init"
    /\ ret = Pending
    /\ camera = Camera_default
    /\ calls = 0
    /\ RenderIdle

CallSolveDeg2Eq ==
    /\ op = "init"
    /\ args.fn = "solve_deg2_eq"
    /\ op' = "solve_deg2_eq"
    /\ ret' = solve_deg2_eq(args.a, args.b, args.c)
    /\ calls' = calls + 1
    /\ UNCHANGED <<args, camera, renderVars>>

\* Both selectors are applied to the same pair.
CallClosest ==
    /\ op = "init"
    /\ args.fn = "closest"
    /\ op' = "closest"
    /\ ret' = [shape |-> closest_facing_solution(args.t), geometry |-> closest_sol(args.t)]
    /\ calls' = calls + 1
    /\ UNCHANGED <<args, camera, renderVars>>

NextAlgebra == CallSolveDeg2Eq \/ CallClosest

SpecAlgebra == InitAlgebra /\ [][NextAlgebra]_vars

(***************************************************************************)
(* SpecVector: the two Vec3 and the two Ray implementations on drawn       *)
(* inputs                                                                  *)
(***************************************************************************)
\* vec3.rs: impl Add for Vec3
vec3_Vec3_add(a, b) == <<Add(a[1], b[1]), Add(a[2], b[2]), Add(a[1], b[3])>>

\* vec3.rs: impl Sub for Vec3
vec3_Vec3_sub(a, b) == <<Sub(a[1], b[1]), Sub(a[2], b[2]), Sub(a[1], b[3])>>

\* light.rs: the accessors of Ray
Ray_origin(self) == self.origin
Ray_direction(self) == self.direction

\* ray.rs: point_at and the accessors of Ray, on the Vec3 of vec3.rs
ray_Ray_point_at(self, t) == vec3_Vec3_add(self.origin, Vec3_mul(t, self.direction))
ray_Ray_origin(self) == self.origin
ray_Ray_direction(self) == self.origin

\* Components of vectors range over -MaxComponent..MaxComponent.
MaxComponent == 1

Vectors ==
    {VI(x, y, z) : x \in -MaxComponent..MaxComponent, y \in -MaxComponent..MaxComponent,
                   z \in -MaxComponent..MaxComponent}

\* Directions given to Ray::new: along an axis, oblique with an exact and
\* with an inexact norm, and zero.
GivenDirections == {VI(0, 0, -2), VI(0, 3, 4), VI(2, 0, 0), VI(1, 1, 1), Vec3_zero}

RayParameters == {I(-1), Zero, Rat(1, 2), Two}

VectorInputs ==
    {[fn |-> "Vec3", a |-> a, b |-> b] : a \in Vectors, b \in Vectors}
    \cup {[fn |-> "Ray::new", origin |-> origin, d |-> d, t |-> t] :
             origin \in Vectors, d \in GivenDirections, t \in RayParameters}

InitVector ==
    /\ args \in VectorInputs
    /\ op = "init"
    /\ ret = Pending
    /\ camera = Camera_default
    /\ calls = 0
    /\ RenderIdle

\* a + b and a - b with the Vec3 of algebra.rs and with the Vec3 of vec3.rs.
CallVec3AddSub ==
    /\ op = "init"
    /\ args.fn = "Vec3"
    /\ op' = "Vec3::add, Vec3::sub"
    /\ ret' = [algebra |-> [add |-> Vec3_add(args.a, args.b), sub |-> Vec3_sub(args.a, args.b)],
               vec3 |-> [add |-> vec3_Vec3_add(args.a, args.b),
                         sub |-> vec3_Vec3_sub(args.a, args.b)]]
    /\ calls' = calls + 1
    /\ UNCHANGED <<args, camera, renderVars>>

\* Ray::new(origin, d, ..) of light.rs and of ray.rs, followed by origin(),
\* direction() and point_at(t).
CallRayNew ==
    /\ op = "init"
    /\ args.fn = "Ray::new"
    /\ op' = "Ray::new"
    /\ ret' = Let(<<Ray_new(args.origin, args.d, I(500)), Ray_new2(args.origin, args.d)>>,
                  LAMBDA rays :
                      [light |-> [origin |-> Ray_origin(rays[1]),
                                  direction |-> Ray_direction(rays[1]),
                                  point |-> Ray_point_at(rays[1], args.t)],
                       ray |-> [origin |-> ray_Ray_origin(rays[2]),
                                direction |-> ray_Ray_direction(rays[2]),
                                point |-> ray_Ray_point_at(rays[2], args.t)]])
    /\ calls' = calls + 1
    /\ UNCHANGED <<args, camera, renderVars>>

NextVector == CallVec3AddSub \/ CallRayNew

SpecVector == InitVector /\ [][NextVector]_vars

(***************************************************************************)
(* SpecShape: one ray against one sphere, plane or triangle                *)
(***************************************************************************)
MaxCoord == 3
MaxRadius == 2

\* The wavelength plays no part in an intersection.
AnyWavelength == I(500)

Points == {VI(x, y, z) : x \in 0..1, y \in -1..1, z \in -MaxCoord..MaxCoord}

\* Origins a little below the plane z = 0, for the thresholds on t.
NearOrigins == {<<Rat(1, 2), Rat(1, 2), Neg(Mul(k, EPSILON))>> : k \in {One, Two}}

\* Directions handed to Ray::new, which normalises them.
Dirs == {VI(0, 0, 1), VI(0, 0, -1), VI(1, 0, 0), VI(0, 3, 4), VI(0, -3, -4), VI(3, 0, -4)}

\* Directions stored as given (a ray built field by field): scaled, zero, and
\* (NearParallelDirs) nearly parallel to the plane z = 0, for the thresholds
\* on the denominator.
LiteralDirs == {VI(0, 0, -2), VI(0, 0, 0)}

NearParallelDirs ==
    {<<One, Zero, Mul(k, EPSILON)>> : k \in {Rat(1, 8), Rat(1, 4), Rat(1, 2), One, Two, I(-2)}}

NewRays == {Ray_new(o, d, AnyWavelength) : o \in Points \cup NearOrigins, d \in Dirs}

\* The rays sent against spheres.
SphereRays ==
    NewRays \cup {Ray_literal(o, d, AnyWavelength) : o \in Points, d \in LiteralDirs}

\* The rays sent against planes and triangles.
Rays ==
    NewRays
    \cup {Ray_literal(o, d, AnyWavelength) :
            o \in Points \cup NearOrigins, d \in LiteralDirs \cup NearParallelDirs}

Spheres == {Sphere_new(c, I(r)) : c \in {VI(0, 0, 0), VI(0, 0, 1)}, r \in 1..MaxRadius}

Planes == {Plane_new(p, n) : p \in {VI(0, 0, 0), VI(0, 0, 1)},
                             n \in {VI(0, 0, 1), VI(0, 1, 0), <<Zero, Rat(3, 5), Rat(4, 5)>>}}

Triangles == {Triangle_new(VI(0, 0, 0), VI(2, 0, 0), VI(0, 2, 0)),
              Triangle_new(VI(0, -1, 0), VI(0, 1, 0), VI(0, 0, 2))}

ShapeInputs ==
    {[fn |-> "sphere", shape |-> sh, ray |-> r] : sh \in Spheres, r \in SphereRays}
    \cup {[fn |-> "geometry_sphere", shape |-> sh, ray |-> r] : sh \in Spheres, r \in NewRays}
    \cup {[fn |-> "plane", shape |-> sh, ray |-> r] : sh \in Planes, r \in Rays}
    \cup {[fn |-> "triangle", shape |-> sh, ray |-> r] : sh \in Triangles, r \in Rays}

InitShape ==
    /\ args \in ShapeInputs
    /\ op = "init"
    /\ ret = Pending
    /\ camera = Camera_default
    /\ calls = 0
    /\ RenderIdle

CallSphereIntersect ==
    /\ op = "init"
    /\ args.fn = "sphere"
    /\ op' = "Sphere::intersect"
    /\ ret' = Sphere_intersect(args.shape, args.ray)
    /\ calls' = calls + 1
    /\ UNCHANGED <<args, camera, renderVars>>

CallGeometrySphereIntersect ==
    /\ op = "init"
    /\ args.fn = "geometry_sphere"
    /\ op' = "geometry::Sphere::intersect"
    /\ ret' = Let(geometry_Sphere_intersect(args.shape, args.ray), LAMBDA t :
                  IF ~t.some THEN t ELSE geometry_Sphere_hit(args.shape, args.ray, t.val))
    /\ calls' = calls + 1
    /\ UNCHANGED <<args, camera, renderVars>>

CallPlaneIntersect ==
    /\ op = "init"
    /\ args.fn = "plane"
    /\ op' = "Plane::intersect"
    /\ ret' = Plane_intersect(args.shape, args.ray)
    /\ calls' = calls + 1
    /\ UNCHANGED <<args, camera, renderVars>>

CallTriangleIntersect ==
    /\ op = "init"
    /\ args.fn = "triangle"
    /\ op' = "Triangle::intersect"
    /\ ret' = Triangle_intersect(args.shape, args.ray)
    /\ calls' = calls + 1
    /\ UNCHANGED <<args, camera, renderVars>>

\* Directions sample_hemisphere can yield around a normal: the normal
\* itself and the directions on its side.
HemisphereSamples(normal) == {normal} \cup {d \in Dirs : Gt(Vec3_dot(d, normal), Zero)}

\* A bounce on the sphere that was hit: calculate_next_ray spawns the
\* secondary ray at the hit point, and intersect_ray sends it against the
\* sphere again.
CallSphereIntersectNext ==
    /\ op = "Sphere::intersect"
    /\ ret.some
    /\ \E sample_direction \in HemisphereSamples(ret.val.normal) :
          \E next_ray \in {PathTracer_calculate_next_ray(ret.val.point, args.ray,
                                                         sample_direction)} :
              /\ op' = "PathTracer::calculate_next_ray"
              /\ args' = [args EXCEPT !.ray = next_ray]
              /\ ret' = [hit |-> ret.val, next |-> Sphere_intersect(args.shape, next_ray)]
    /\ calls' = calls + 1
    /\ UNCHANGED <<camera, renderVars>>

NextShape ==
    \/ CallSphereIntersect
    \/ CallGeometrySphereIntersect
    \/ CallPlaneIntersect
    \/ CallTriangleIntersect
    \/ CallSphereIntersectNext

SpecShape == InitShape /\ [][NextShape]_vars

(***************************************************************************)
(* SpecCamera: one camera, configured again and again                      *)
(***************************************************************************)
CameraConfig(position, direction, resolution, rotation, fov, focus_mode) ==
    [position |-> position, direction |-> direction, resolution |-> resolution,
     rotation |-> rotation, fov |-> fov, focus_mode |-> focus_mode]

\* The configuration every drawn one differs from in one or two fields.
BaseConfig ==
    CameraConfig(Vec3_zero, VI(0, 0, -1), <<U32(4), U32(2)>>, Angle_zero,
                 FieldOfView_default, PinHole)

\* CameraConfig::default(), whose direction is the zero vector.
CameraConfig_default ==
    CameraConfig(Vec3_zero, Vec3_zero, <<U32(800), U32(600)>>, Angle_zero,
                 FieldOfView_default, PinHole)

Positions == {Vec3_zero, VI(1, 2, 3)}

Directions == {VI(0, 0, -1), VI(3, 0, -4), VI(0, 3, 4), VI(0, 1, 0), Vec3_zero}

Resolutions ==
    {<<U32(0), U32(0)>>, <<U32(0), U32(3)>>, <<U32(3), U32(0)>>, <<U32(1), U32(1)>>,
     <<U32(3), U32(1)>>, <<U32(800), U32(600)>>,
     <<<<1, 0>>, <<1, 0>>>>,       \* 65536 x 65536
     <<<<32768, 0>>, <<0, 2>>>>,   \* 2^31 x 2
     <<<<0, 2>>, <<32768, 0>>>>}   \* 2 x 2^31

\* 0, 2*atan(1/3), 2*atan(1/2), pi/2, pi, 3*pi/2, 2*pi, their negatives, NaN.
Angles ==
    {Angle(0, Zero), Angle(0, Rat(1, 3)), Angle(0, Rat(1, 2)), Angle(0, One), Angle_PI,
     Angle(1, I(-1)), Angle(1, Zero),
     Angle(0, Rat(-1, 2)), Angle(0, I(-1)), Angle(-1, PosInf), Angle(-1, One), Angle(-1, Zero),
     Angle_NaN}

Rotations == {Angle_zero, Angle(0, Rat(1, 3)), Angle(0, One), Angle_PI, Angle(0, I(-1))}

Fovs == {Horizontal(a) : a \in Angles} \cup {Vertical(a) : a \in Angles}

\* Angles inside (0, pi).
InnerFovs == {Horizontal(Angle(0, One)), Vertical(Angle(0, Rat(1, 2)))}

FocusModes ==
    {PinHole, FocalPlane(One, Rat(1, 2)), FocalPlane(Two, Zero),
     FocalPlane(I(-1), One), FocalPlane(One, I(-1)), FocalPlane(I(-1), I(-1))}

Configs ==
    {CameraConfig_default, [BaseConfig EXCEPT !.position = VI(1, 2, 3)]}
    \cup {[BaseConfig EXCEPT !.direction = d] : d \in Directions}
    \cup {[BaseConfig EXCEPT !.resolution = r] : r \in Resolutions}
    \cup {[BaseConfig EXCEPT !.rotation = a] : a \in Rotations}
    \cup {[BaseConfig EXCEPT !.rotation = Angle(0, Rat(1, 3)), !.direction = d] :
            d \in {VI(3, 0, -4), VI(0, 3, 4)}}
    \cup {[BaseConfig EXCEPT !.fov = f] : f \in Fovs}
    \cup {[BaseConfig EXCEPT !.fov = f, !.focus_mode = m] : f \in InnerFovs, m \in FocusModes}
    \cup {[BaseConfig EXCEPT !.resolution = <<U32(800), U32(600)>>, !.focus_mode = m] :
            m \in {FocalPlane(I(-1), One), FocalPlane(One, I(-1))}}

\* How many times the camera is configured.
MaxCalls == 2

Builds == {"debug", "release"}

InitCamera ==
    /\ op = "init"
    /\ args = Pending
    /\ ret = Pending
    /\ camera = Camera_default
    /\ calls = 0
    /\ RenderIdle

\* The builds to tell apart for a configuration: they compute the same
\* unless the pixel count overflows.
BuildsThatDiffer(config) ==
    IF U32_mul(config.resolution[1], config.resolution[2]).overflow THEN Builds
    ELSE {"release"}

\* camera.config(&config), on the camera as earlier calls left it.
CallConfig ==
    /\ calls < MaxCalls
    /\ op # "Camera::cast_ray"
    /\ \E config \in Configs :
        \E build \in BuildsThatDiffer(config) :
          \E r \in {Camera_config(camera, config, build)} :
              /\ calls' = calls + 1
              /\ op' = "Camera::config"
              /\ args' = [config |-> config, before |-> camera]
              /\ ret' = r.result
              /\ camera' = r.camera
              /\ UNCHANGED renderVars

\* Pixel indices around the widths and heights of Resolutions.
PixelColumns == {U32(0), U32(3), U32(4)}
PixelRows == {U32(0), U32(1), U32(2)}

\* Values of rng.sample(rand_distr::UnitDisc): points [x, y] with
\* x^2 + y^2 <= 1.
UnitDisc ==
    {<<Zero, Zero>>, <<One, Zero>>, <<Zero, I(-1)>>, <<Rat(3, 5), Rat(4, 5)>>,
     <<Rat(-1, 2), Rat(1, 2)>>, <<Rat(1, 4), Zero>>}

\* cast_ray draws from the rng in FocalPlane mode only.
NoSample == <<Zero, Zero>>

\* camera.cast_ray(i, j, &mut rng).  cast_ray takes &self and leaves the
\* camera as it is, so a behaviour is config calls followed by a cast.
CallCastRay ==
    /\ op # "Camera::cast_ray"
    /\ \E i \in PixelColumns, j \in PixelRows :
         \E sample \in IF camera.focus_mode.kind = "FocalPlane" THEN UnitDisc ELSE {NoSample} :
              /\ calls' = calls + 1
              /\ op' = "Camera::cast_ray"
              /\ args' = [i |-> i, j |-> j, sample |-> sample]
              /\ ret' = Camera_cast_ray(camera, i, j, sample)
              /\ UNCHANGED <<camera, renderVars>>

NextCamera == CallConfig \/ CallCastRay

SpecCamera == InitCamera /\ [][NextCamera]_vars

(***************************************************************************)
(* SpecSpectrum: one spectrum, written by index and then interpolated      *)
(***************************************************************************)
\* The longest wavelength grid.
MaxSamples == 3

\* How many powers are written before the spectrum is read.
MaxWrites == 3

\* The wavelengths of the grids: 1..MaxSamples + 1
GridWavelengths == 1..(MaxSamples + 1)

\* The strictly increasing grids of up to MaxSamples wavelengths.
Grids ==
    {grid \in UNION {[1..n -> GridWavelengths] : n \in 0..MaxSamples} :
        \A k \in 1..(Len(grid) - 1) : grid[k] < grid[k + 1]}

Powers == {I(5), I(7), Rat(1, 2)}

\* Wavelengths asked for: every grid wavelength, the midpoints between them
\* and points below and above all of them.
Queries == {Rat(n, 2) : n \in 0..(2 * MaxSamples + 4)}

InitSpectrum ==
    /\ op = "init"
    /\ args = Pending
    /\ ret = Pending
    /\ camera = Camera_default
    /\ calls = 0
    /\ spectrum \in {Spectrum_new([k \in 1..Len(grid) |-> I(grid[k])]) : grid \in Grids}
    /\ scene = Scene_new
    /\ tracer = PathTracer_default
    /\ stack = <<>>
    /\ path = Path_new
    /\ thread_rng = {}

\* spectrum[index] = value
CallIndexMut ==
    /\ calls < MaxWrites
    /\ op # "Spectrum::interpolate_at"
    /\ \E index \in 0..(spectrum.size - 1), value \in Powers :
          /\ op' = "Spectrum::index_mut"
          /\ args' = [index |-> index, value |-> value]
          /\ spectrum' = Spectrum_index_mut(spectrum, index, value)
          /\ ret' = Pending
          /\ calls' = calls + 1
          /\ UNCHANGED <<camera, scene, tracer, stack, path, thread_rng>>

\* spectrum.interpolate_at(wavelength)
CallInterpolateAt ==
    /\ op # "Spectrum::interpolate_at"
    /\ \E wavelength \in Queries :
          /\ op' = "Spectrum::interpolate_at"
          /\ args' = [wavelength |-> wavelength]
          /\ ret' = Spectrum_interpolate_at(spectrum, wavelength)
          /\ calls' = calls + 1
          /\ UNCHANGED <<camera, spectrum, scene, tracer, stack, path, thread_rng>>

NextSpectrum == CallIndexMut \/ CallInterpolateAt

SpecSpectrum == InitSpectrum /\ [][NextSpectrum]_vars

(***************************************************************************)
(* SpecRender: one path tracer, one scene, one call of propagate_ray or    *)
(* of render, followed frame by frame                                      *)
(***************************************************************************)
\* The largest max_rays of a Fix policy.
MaxFix == 2

\* No path is followed beyond this depth.
DepthCap == MaxFix + 2

SampleGrid == <<I(1), I(2), I(3)>>

ConstantSpectrum(wavelengths, power) ==
    [wavelengths |-> wavelengths, powers |-> [k \in 1..Len(wavelengths) |-> power],
     size |-> Len(wavelengths)]

\* The emitted power of the lamps.
Emitted == I(5)

\* Emits Emitted and absorbs everything on SampleGrid.
Lamp == MaterialProperties(Some(ConstantSpectrum(SampleGrid, Emitted)),
                           Some(ConstantSpectrum(SampleGrid, Zero)))
LampWithoutAbsorption == MaterialProperties(Some(ConstantSpectrum(SampleGrid, Emitted)), None)
Diffuse == MaterialProperties(None, Some(ConstantSpectrum(SampleGrid, Rat(1, 2))))
Glow == MaterialProperties(Some(ConstantSpectrum(<<I(2)>>, Emitted)),
                           Some(ConstantSpectrum(SampleGrid, Rat(1, 2))))
Material_default == MaterialProperties(None, None)

Object(material) == [material |-> material]

RECURSIVE SceneOf(_)
SceneOf(materials) ==
    IF materials = <<>> THEN Scene_new
    ELSE Scene_add_object(SceneOf(Pop(materials)), Object(Top(materials)))

Scenes ==
    {SceneOf(materials) :
        materials \in {<<>>, <<Lamp>>, <<LampWithoutAbsorption>>, <<Diffuse>>, <<Glow>>,
                       <<Material_default>>, <<Lamp, Diffuse>>, <<Diffuse, Glow>>}}

Tracers ==
    {PathTracer(1, Fix(n)) : n \in 0..MaxFix}
    \cup {PathTracer(2, Fix(1)), PathTracer(1, HalfLife(1)), PathTracer(2, HalfLife(2))}

\* Wavelengths of rays: the first of SampleGrid, one inside, one beyond.
RayWavelengths == {I(1), I(2), I(4)}

\* What the objects of a scene yield for a ray: nothing, one object at
\* t = 1, or two objects at t = 1 and t = 2 in either order.
Hits(s) ==
    {hits \in [1..Len(s.objects) -> {None, Some(One), Some(Two)}] :
        /\ \A k \in DOMAIN hits : hits[k] = Some(Two) => \E m \in DOMAIN hits : hits[m] = Some(One)
        /\ \A k, m \in DOMAIN hits : (k # m /\ hits[k] # None) => hits[k] # hits[m]}

\* Origins and directions of the rays propagate_ray is called with.
RayOrigins == {VI(1, 2, 3)}
RayDirections == {VI(0, 0, -2)}

\* Directions sample_hemisphere yields.
SampleDirections == {VI(0, 3, 4)}

\* Values of rng.gen::<f32>() in should_extinguish.
Draws == {Zero, Rat(1, 4), Rat(3, 4)}

NoDraw == Zero

WavelengthLists == {<<>>, <<I(2)>>, <<I(1), I(2)>>}

\* The unconfigured camera (0 x 0 pixels) and cameras of 1 x 1 and 2 x 1.
RenderCameras ==
    {Camera_default}
    \cup {Camera_config(Camera_default, [BaseConfig EXCEPT !.resolution = resolution],
                        "release").camera :
             resolution \in {<<U32(1), U32(1)>>, <<U32(2), U32(1)>>}}

InitRender ==
    /\ op = "init"
    /\ args = Pending
    /\ ret = Pending
    /\ camera \in RenderCameras
    /\ calls = 0
    /\ spectrum = Spectrum_new(<<>>)
    /\ scene \in Scenes
    /\ tracer \in Tracers
    /\ stack = <<>>
    /\ path = Path_new
    /\ thread_rng = {}

\* self.propagate_ray(&ray, scene, counter, &mut rng), called on its own.
\* The call takes no camera: it is made next to the unconfigured one.
CallPropagateRay ==
    /\ op = "init"
    /\ camera = Camera_default
    /\ \E wavelength \in RayWavelengths, hits \in Hits(scene), counter \in 0..(MaxFix + 1),
          origin \in RayOrigins, direction \in RayDirections :
          /\ op' = "PathTracer::propagate_ray"
          /\ args' = [ray |-> TracedRay(Ray_new(origin, direction, wavelength), hits),
                      counter |-> counter]
          /\ stack' = <<PropagateFrame(TracedRay(Ray_new(origin, direction, wavelength), hits),
                                       counter)>>
          /\ path' = Path_new
          /\ calls' = calls + 1
          /\ UNCHANGED <<ret, camera, spectrum, scene, tracer, thread_rng>>

\* self.render(scene, camera, wavelengths), up to the loop over the pixels.
CallRender ==
    /\ op = "init"
    /\ \E wavelengths \in WavelengthLists :
          /\ op' = "PathTracer::render"
          /\ args' = [wavelengths |-> wavelengths]
          /\ stack' = <<RenderFrame(U32_value(camera.resolution[1]),
                                    U32_value(camera.resolution[2]), wavelengths)>>
          /\ calls' = calls + 1
          /\ UNCHANGED <<ret, camera, spectrum, scene, tracer, path, thread_rng>>

Running(fn) == stack # <<>> /\ Top(stack).fn = fn

\* The loop of render yields the next pixel and calls render_pixel, up to
\* its loop over the samples.
RenderPixel ==
    /\ Running("render")
    /\ Top(stack).pixel < Top(stack).width * Top(stack).height
    /\ stack' = Append(stack, RenderPixelFrame(Top(stack).pixel % Top(stack).width,
                                               Top(stack).pixel \div Top(stack).width,
                                               Top(stack).wavelengths))
    /\ spectrum' = Spectrum_new(Top(stack).wavelengths)
    /\ UNCHANGED <<op, args, ret, camera, calls, scene, tracer, path, thread_rng>>

\* The loop of render is over: render returns the image.
RenderReturn ==
    /\ Running("render")
    /\ Top(stack).pixel >= Top(stack).width * Top(stack).height
    /\ stack' = <<>>
    /\ ret' = [width |-> Top(stack).width, height |-> Top(stack).height,
               pixels |-> Top(stack).pixel]
    /\ UNCHANGED <<op, args, camera, calls, spectrum, scene, tracer, path, thread_rng>>

\* sample_wavelength(wavelenghts, rng): wavelenghts.iter().enumerate()
\* .choose(rng), choice being the position the rng picks.
PathTracer_sample_wavelength(wavelenghts, choice) ==
    IF wavelenghts = <<>> THEN None ELSE Some(<<choice, wavelenghts[choice + 1]>>)

\* The positions choose(rng) can pick in a list; of an empty list none is
\* picked, whatever the rng.
Choices(wavelenghts) == IF wavelenghts = <<>> THEN {0} ELSE 0..(Len(wavelenghts) - 1)

\* One round of the loop of render_pixel up to the call of propagate_ray:
\* a wavelength is drawn and a ray cast.  Without a wavelength expect()
\* panics; without a ray the power is 0.0 and the round ends here.
RenderPixelSample ==
    /\ Running("render_pixel")
    /\ Top(stack).sample < tracer.samples_per_pixel
    /\ \E cast \in {Camera_cast_ray(camera, U32(Top(stack).i), U32(Top(stack).j), NoSample)},
          choice \in Choices(Top(stack).wavelengths), hits \in Hits(scene) :
          \E sampled \in {PathTracer_sample_wavelength(Top(stack).wavelengths, choice)} :
          IF sampled = None
          THEN /\ stack' = <<>>
               /\ ret' = Panic
               /\ UNCHANGED <<spectrum, path, thread_rng>>
          ELSE IF cast = None
          THEN /\ stack' = [stack EXCEPT ![Len(stack)].sample = @ + 1,
                                         ![Len(stack)].wavelength_index = sampled.val[1],
                                         ![Len(stack)].power = Zero]
               /\ spectrum' = Spectrum_accumulate(spectrum, sampled.val[1], Zero,
                                                  tracer.samples_per_pixel)
               /\ thread_rng' = thread_rng \cup {<<Top(stack).i, Top(stack).j>>}
               /\ UNCHANGED <<ret, path>>
          ELSE /\ stack' = Append([stack EXCEPT ![Len(stack)].wavelength_index = sampled.val[1]],
                                  PropagateFrame(
                                      TracedRay(Ray_literal(cast.val.origin, cast.val.direction,
                                                            sampled.val[2]),
                                                hits), 0))
               /\ path' = Path_new
               /\ thread_rng' = thread_rng \cup {<<Top(stack).i, Top(stack).j>>}
               /\ UNCHANGED <<ret, spectrum>>
    /\ UNCHANGED <<op, args, camera, calls, scene, tracer>>

\* The Spectrum a render_pixel call returns to its caller outside.
PixelSpectrum(s) == [spectrum |-> s]

\* render_pixel returns its spectrum.  Called on its own, that is the
\* result; called by render, render converts it: with a colour the pixel
\* is written and the loop goes on, with a panic render ends.
RenderPixelReturn ==
    /\ Running("render_pixel")
    /\ Top(stack).sample >= tracer.samples_per_pixel
    /\ IF Len(stack) = 1
       THEN /\ stack' = <<>>
            /\ ret' = PixelSpectrum(spectrum)
       ELSE IF spectrum_to_rgb(spectrum) = Panic
       THEN /\ stack' = <<>>
            /\ ret' = Panic
       ELSE /\ stack' = [Pop(stack) EXCEPT ![Len(stack) - 1].pixel = @ + 1]
            /\ ret' = ret
    /\ UNCHANGED <<op, args, camera, calls, spectrum, scene, tracer, path, thread_rng>>

\* The f32 a propagate_ray call returns to its caller outside.
Power(power) == [power |-> power]

\* The propagate_ray call on top returns power: the calls waiting for it
\* return in turn, and the power that comes out of the last one is the
\* result of the call made from outside, or is added by render_pixel to the
\* spectrum of the pixel.
Returns(power) ==
    \E r \in {Unwind(Pop(stack), power)} :
        IF r.stack = <<>>
        THEN /\ stack' = <<>>
             /\ ret' = Power(r.power)
             /\ spectrum' = spectrum
        ELSE /\ stack' = [r.stack EXCEPT ![Len(r.stack)].sample = @ + 1,
                                         ![Len(r.stack)].power = r.power]
             /\ ret' = ret
             /\ spectrum' = Spectrum_accumulate(spectrum, Top(r.stack).wavelength_index,
                                                r.power, tracer.samples_per_pixel)

Entered == Running("propagate_ray") /\ Top(stack).pc = "enter"

\* let mut rng = rand::thread_rng() in render_pixel is a handle to the
\* generator of the thread, and every function below is handed that handle:
\* the pixel whose render_pixel call is running advances thread_rng.
Drawer ==
    {<<stack[k].i, stack[k].j>> : k \in {m \in DOMAIN stack : stack[m].fn = "render_pixel"}}

\* The numbers should_extinguish can draw.
ExtinctionDraws == IF tracer.ray_extinction.kind = "HalfLife" THEN Draws ELSE {NoDraw}

\* propagate_ray: should_extinguish holds, the call returns 0.0.
PropagateExtinguish ==
    /\ Entered
    /\ \E q \in ExtinctionDraws :
          /\ PathTracer_should_extinguish(tracer, Top(stack).counter, q)
          /\ Returns(Zero)
    /\ thread_rng' = thread_rng \cup Drawer
    /\ UNCHANGED <<op, args, camera, calls, scene, tracer, path>>

\* propagate_ray: the ray meets no object, the call returns 0.0.
PropagateMiss ==
    /\ Entered
    /\ \E q \in ExtinctionDraws :
          /\ ~PathTracer_should_extinguish(tracer, Top(stack).counter, q)
          /\ PathTracer_intersect_ray(Top(stack).ray, scene) = {}
          /\ Returns(Zero)
    /\ path' = [intersections |-> path.intersections + 1, hit |-> None]
    /\ thread_rng' = thread_rng \cup Drawer
    /\ UNCHANGED <<op, args, camera, calls, scene, tracer>>

\* What propagate_ray reads off the object it hit.
Hit(object, ray, counter) ==
    [object |-> object,
     point |-> Ray_point_at(ray, ray.hits[object].val),
     counter |-> counter,
     wavelength |-> ray.wavelength,
     e |-> Material_e(scene.objects[object].material, ray.wavelength),
     t |-> Material_t(scene.objects[object].material, ray.wavelength)]

\* propagate_ray: the ray meets an object with t <= 0.0, the call returns e.
PropagateAbsorb ==
    /\ Entered
    /\ \E q \in ExtinctionDraws :
          /\ ~PathTracer_should_extinguish(tracer, Top(stack).counter, q)
          /\ \E first \in PathTracer_intersect_ray(Top(stack).ray, scene) :
              \E hit \in {Hit(first, Top(stack).ray, Top(stack).counter)} :
              /\ Le(hit.t, Zero)
              /\ Returns(hit.e)
              /\ path' = [intersections |-> path.intersections + 1,
                          hit |-> Some(hit @@ [spawned |-> FALSE])]
    /\ thread_rng' = thread_rng \cup Drawer
    /\ UNCHANGED <<op, args, camera, calls, scene, tracer>>

\* propagate_ray: the ray meets an object with t > 0.0; the next ray is
\* computed and propagate_ray called for it with counter + 1.
PropagateBounce ==
    /\ Entered
    /\ Top(stack).counter < DepthCap
    /\ \E q \in ExtinctionDraws :
          /\ ~PathTracer_should_extinguish(tracer, Top(stack).counter, q)
          /\ \E first \in PathTracer_intersect_ray(Top(stack).ray, scene) :
              \E hit \in {Hit(first, Top(stack).ray, Top(stack).counter)} :
              /\ ~Le(hit.t, Zero)
              /\ \E sample_direction \in SampleDirections :
                 \E next_ray \in {PathTracer_calculate_next_ray(hit.point, Top(stack).ray,
                                                                sample_direction)} :
                 \E hits \in Hits(scene) :
                     stack' = Append([stack EXCEPT ![Len(stack)] =
                                          RecurseFrame(Top(stack).counter, hit.e, hit.t)],
                                     PropagateFrame(TracedRay(next_ray, hits),
                                                    Top(stack).counter + 1))
              /\ path' = [intersections |-> path.intersections + 1,
                          hit |-> Some(hit @@ [spawned |-> TRUE])]
    /\ thread_rng' = thread_rng \cup Drawer
    /\ UNCHANGED <<op, args, ret, camera, calls, spectrum, scene, tracer>>

NextRender ==
    \/ CallPropagateRay
    \/ CallRender
    \/ RenderPixel
    \/ RenderReturn
    \/ RenderPixelSample
    \/ RenderPixelReturn
    \/ PropagateExtinguish
    \/ PropagateMiss
    \/ PropagateAbsorb
    \/ PropagateBounce

SpecRender == InitRender /\ [][NextRender]_vars

\* Every step that can be taken is taken in the end.
SpecRenderFair == SpecRender /\ WF_vars(NextRender)

(***************************************************************************)
(* SpecPixels: render_pixel called for one pixel after another on one      *)
(* thread                                                                  *)
(***************************************************************************)
PixelScenes == {SceneOf(materials) : materials \in {<<>>, <<Lamp>>, <<Glow>>}}

PixelTracers == {PathTracer(2, Fix(0)), PathTracer(1, HalfLife(1))}

\* The camera of 2 x 1 pixels.
PixelCamera ==
    Camera_config(Camera_default, [BaseConfig EXCEPT !.resolution = <<U32(2), U32(1)>>],
                  "release").camera

InitPixels ==
    /\ op = "init"
    /\ args = Pending
    /\ ret = Pending
    /\ camera = PixelCamera
    /\ calls = 0
    /\ spectrum = Spectrum_new(<<>>)
    /\ scene \in PixelScenes
    /\ tracer \in PixelTracers
    /\ stack = <<>>
    /\ path = Path_new
    /\ thread_rng = {}

\* self.render_pixel(i, j, camera, scene, wavelengths), called on its own
\* for a pixel of the camera, up to the loop over the samples.
CallRenderPixel ==
    /\ calls < MaxCalls
    /\ stack = <<>>
    /\ ret # Panic
    /\ \E i \in 0..(U32_value(camera.resolution[1]) - 1),
          j \in 0..(U32_value(camera.resolution[2]) - 1),
          wavelengths \in WavelengthLists :
          /\ op' = "PathTracer::render_pixel"
          /\ args' = [i |-> i, j |-> j, wavelengths |-> wavelengths]
          /\ ret' = Pending
          /\ stack' = <<RenderPixelFrame(i, j, wavelengths)>>
          /\ spectrum' = Spectrum_new(wavelengths)
          /\ calls' = calls + 1
          /\ UNCHANGED <<camera, scene, tracer, path, thread_rng>>

NextPixels ==
    \/ CallRenderPixel
    \/ RenderPixelSample
    \/ RenderPixelReturn
    \/ PropagateExtinguish
    \/ PropagateMiss
    \/ PropagateAbsorb
    \/ PropagateBounce

SpecPixels == InitPixels /\ [][NextPixels]_vars

(***************************************************************************)
(* Properties of the solver and the selectors (SpecAlgebra)                *)
(***************************************************************************)
Discriminant(a, b, c) == Sub(Mul(b, b), Mul(Mul(I(4), a), c))

IsRoot(a, b, c, x) == Eq(Add(Add(Mul(a, Mul(x, x)), Mul(b, x)), c), Zero)

SolveCalled == op = "solve_deg2_eq"

\* C1: for a != 0 and a positive discriminant solve_deg2_eq returns a pair
\* (x1, x2) with x1 <= x2, whatever the sign of a, and both members are roots
\* of a*x^2 + b*x + c (checked where they are computed without rounding:
\* elsewhere the members are roundings of the roots); for a zero
\* discriminant it returns the repeated root -b/(2a) as (x, x).
C1_OrderedRoots ==
    SolveCalled /\ Ne(args.a, Zero) =>
        LET d == Discriminant(args.a, args.b, args.c)
        IN  /\ Gt(d, Zero) =>
                /\ ret.some
                /\ Le(ret.val[1], ret.val[2])
                /\ IsExact(ret.val[1]) /\ IsExact(ret.val[2]) =>
                       /\ IsRoot(args.a, args.b, args.c, ret.val[1])
                       /\ IsRoot(args.a, args.b, args.c, ret.val[2])
                       /\ ret.val[1] # ret.val[2]
            /\ Eq(d, Zero) =>
                /\ ret.some
                /\ ret.val[1] = ret.val[2]
                /\ IsRoot(args.a, args.b, args.c, ret.val[1])

\* A negative leading coefficient with two roots: -x^2 + 2x + 3 = 0 gives (-1, 3).
C1_Witness ==
    /\ SolveCalled
    /\ args.a = I(-1) /\ args.b = I(2) /\ args.c = I(3)
    /\ ret = Some(<<I(-1), I(3)>>)

\* C2: solve_deg2_eq returns no solution exactly when (a = 0 and b = 0) or
\* (a != 0 and the discriminant is negative); for a = 0 and b != 0 it returns
\* the pair (-c/b, -c/b); the result is always a value or 'no solution', never
\* a panic.
C2_NoSolutionExactly ==
    SolveCalled =>
        LET a == args.a
            b == args.b
            c == args.c
        IN  /\ ret = None \/ (ret.some /\ DOMAIN ret = {"some", "val"})
            /\ ret # Panic
            /\ (ret = None) <=>
                   \/ (a = Zero /\ b = Zero)
                   \/ (a # Zero /\ Lt(Discriminant(a, b, c), Zero))
            /\ (a = Zero /\ b # Zero) =>
                   ret = Some(<<Div(Neg(c), b), Div(Neg(c), b)>>)

\* The linear case 0*x^2 + 1*x + 2 = 0 gives (-2, -2).
C2_Witness ==
    /\ SolveCalled
    /\ args.a = Zero /\ args.b = I(1) /\ args.c = I(2)
    /\ ret = Some(<<I(-2), I(-2)>>)

ClosestCalled == op = "closest"

\* The smallest non-negative member of the pair t, if there is one.
IsSmallestNonNegative(r, t) ==
    IF \E i \in 1..2 : Ge(t[i], Zero)
    THEN /\ r.some
         /\ \E i \in 1..2 : r.val = t[i]
         /\ Ge(r.val, Zero)
         /\ \A i \in 1..2 : Ge(t[i], Zero) => Le(r.val, t[i])
    ELSE r = None

SphereCalled == op \in {"Sphere::intersect", "geometry::Sphere::intersect"}

IsHit(r) == r.some

\* No rounding on the way to the roots: the three coefficients are exact.
ExactCoefficients(sphere, ray) ==
    Let(Sphere_coefficients(sphere, ray), LAMBDA q :
        IsExact(q.a) /\ IsExact(q.b) /\ IsExact(q.c))

\* |p - center|^2 = radius^2
OnSphere(sphere, p) ==
    Eq(Vec3_norm2(Vec3_sub(p, sphere.center)), Mul(sphere.radius, sphere.radius))

\* The hit point lies on the sphere, wherever the arithmetic that led to it
\* was exact.
HitOnSphere(sphere, ray, hit) ==
    (ExactCoefficients(sphere, ray) /\ IsExact(hit.ray_t)) => OnSphere(sphere, hit.point)

\* The squared distance of the ray origin from the centre, against radius^2.
OriginOutside(sphere, ray) ==
    Gt(Vec3_norm2(Vec3_sub(ray.origin, sphere.center)), Mul(sphere.radius, sphere.radius))

OriginInside(sphere, ray) ==
    Lt(Vec3_norm2(Vec3_sub(ray.origin, sphere.center)), Mul(sphere.radius, sphere.radius))

PointsAway(sphere, ray) ==
    Gt(Vec3_dot(Vec3_sub(ray.origin, sphere.center), ray.direction), Zero)

HasDirection(ray) == Gt(Vec3_norm2(ray.direction), Zero)

\* C4: Sphere::intersect (shape.rs and geometry.rs) returns a hit only with
\* t >= 0, at the point origin + t*direction, which lies on the sphere
\* surface; a ray from outside the sphere that points away from it gets no
\* hit; a ray (with a direction other than the zero vector) that starts
\* inside the sphere gets a hit at the larger root of the quadratic, with
\* t > 0.
C4_SphereHit ==
    SphereCalled =>
        /\ IsHit(ret) =>
              /\ Ge(ret.val.ray_t, Zero)
              /\ ret.val.point = Ray_point_at(args.ray, ret.val.ray_t)
              /\ HitOnSphere(args.shape, args.ray, ret.val)
        /\ (OriginOutside(args.shape, args.ray) /\ PointsAway(args.shape, args.ray))
              => ret = None
        /\ (OriginInside(args.shape, args.ray) /\ HasDirection(args.ray)) =>
              /\ IsHit(ret)
              /\ Gt(ret.val.ray_t, Zero)
              /\ ret.val.ray_t = Sphere_solutions(args.shape, args.ray).val[2]
              /\ Lt(Sphere_solutions(args.shape, args.ray).val[1], Zero)

\* A ray from inside the sphere that leaves it at an exactly computed point.
C4_Witness ==
    /\ op = "Sphere::intersect"
    /\ OriginInside(args.shape, args.ray)
    /\ IsHit(ret)
    /\ ExactCoefficients(args.shape, args.ray)
    /\ IsExact(ret.val.ray_t)
    /\ Gt(ret.val.ray_t, Zero)
    /\ OnSphere(args.shape, ret.val.point)

\* C5: for every sphere hit the normal faces against the incident ray,
\* dot(normal, ray.direction) <= 0.
C5_NormalOpposesRay ==
    (SphereCalled /\ IsHit(ret)) =>
        Le(Vec3_dot(ret.val.normal, args.ray.direction), Zero)

PlaneCalled == op = "Plane::intersect"

Plane_denom(plane, ray) == Vec3_dot(ray.direction, plane.normal)

Plane_t(plane, ray) ==
    Div(Vec3_dot(Vec3_sub(plane.position, ray.origin), plane.normal), Plane_denom(plane, ray))

OnPlane(plane, p) ==
    Let(Vec3_dot(Vec3_sub(p, plane.position), plane.normal), LAMBDA off :
        IsExact(off) => Eq(off, Zero))

\* C6: Plane::intersect returns a hit exactly when |direction.normal| >
\* EPSILON and t = (position - origin).normal / (direction.normal) >= 0; the
\* hit is at that t, at origin + t*direction, which lies on the plane, with
\* the plane's stored normal; otherwise it returns None, never a panic.
C6_PlaneHit ==
    PlaneCalled =>
        /\ IsHit(ret) <=> (/\ Gt(RAbs(Plane_denom(args.shape, args.ray)), EPSILON)
                           /\ Ge(Plane_t(args.shape, args.ray), Zero))
        /\ IsHit(ret) =>
              /\ ret.val.ray_t = Plane_t(args.shape, args.ray)
              /\ ret.val.point = Ray_point_at(args.ray, ret.val.ray_t)
              /\ OnPlane(args.shape, ret.val.point)
              /\ ret.val.normal = args.shape.normal
        /\ ~IsHit(ret) => ret = None

\* A hit at t = 0 (origin on the plane), and the point on the plane.
C6_Witness ==
    /\ PlaneCalled
    /\ IsHit(ret)
    /\ Eq(ret.val.ray_t, Zero)
    /\ IsExact(Vec3_dot(Vec3_sub(ret.val.point, args.shape.position), args.shape.normal))

TriangleCalled == op = "Triangle::intersect"

\* The geometry of a ray against the plane of a triangle, from the plane's
\* normal n = edge1 x edge2: the ray parameter t of the crossing point p and
\* the coordinates (u, v) of p in the frame (va; edge1, edge2).
Triangle_plane(tri, ray) ==
    Let(Vec3_sub(tri.vb, tri.va), LAMBDA edge1 :
    Let(Vec3_sub(tri.vc, tri.va), LAMBDA edge2 :
    Let(Vec3_cross(edge1, edge2), LAMBDA n :
    Let(Vec3_dot(ray.direction, n), LAMBDA dn :
    Let(Div(Vec3_dot(Vec3_sub(tri.va, ray.origin), n), dn), LAMBDA t :
    Let(Vec3_sub(Ray_point_at(ray, t), tri.va), LAMBDA w :
        [dn |-> dn,
         t |-> t,
         u |-> Div(Vec3_dot(Vec3_cross(w, edge2), n), Vec3_dot(n, n)),
         v |-> Div(Vec3_dot(Vec3_cross(edge1, w), n), Vec3_dot(n, n))]))))))

InsideTriangle(g) ==
    /\ Ge(g.u, Zero) /\ Le(g.u, One)
    /\ Ge(g.v, Zero) /\ Le(Add(g.u, g.v), One)

\* va + u*edge1 + v*edge2
Triangle_point(tri, u, v) ==
    Vec3_add(tri.va, Vec3_add(Vec3_mul(u, Vec3_sub(tri.vb, tri.va)),
                              Vec3_mul(v, Vec3_sub(tri.vc, tri.va))))

\* C7: Triangle::intersect returns a hit exactly when the ray is not parallel
\* to the triangle (|direction.(edge1 x edge2)| >= EPSILON), the crossing
\* point has 0 <= u <= 1, v >= 0, u + v <= 1, and t > EPSILON; the hit is at
\* that t and its point is va + u*edge1 + v*edge2; a ray whose origin lies
\* on the triangle's plane (t = 0) gets None.
C7_TriangleHit ==
    TriangleCalled =>
        Let(Triangle_plane(args.shape, args.ray), LAMBDA g :
            /\ IsHit(ret) <=> (/\ Ge(RAbs(g.dn), EPSILON)
                               /\ InsideTriangle(g)
                               /\ Gt(g.t, EPSILON))
            /\ IsHit(ret) =>
                  /\ Eq(ret.val.ray_t, g.t)
                  /\ ret.val.point = Ray_point_at(args.ray, ret.val.ray_t)
                  /\ ret.val.point = Triangle_point(args.shape, g.u, g.v)
            /\ (Ge(RAbs(g.dn), EPSILON) /\ Eq(g.t, Zero)) => ret = None
            /\ ~IsHit(ret) => ret = None)

\* A hit on the edge u + v = 1 of the triangle.
C7_Witness ==
    /\ TriangleCalled
    /\ IsHit(ret)
    /\ Let(Triangle_plane(args.shape, args.ray), LAMBDA g :
           Eq(Add(g.u, g.v), One) /\ Gt(g.u, Zero) /\ Gt(g.v, Zero))

(***************************************************************************)
(* Properties of Camera::config (SpecCamera)                               *)
(***************************************************************************)
ConfigCalled == op = "Camera::config"

U32_is_zero(x) == x = U32(0)

\* The call got past the resolution check of camera.rs:136-138.
PassedResolutionCheck ==
    /\ ret # Overflow_panic
    /\ ret # Err("The camera resolution cannot be zero")

\* C8: Camera::config rejects a resolution exactly when width = 0 or
\* height = 0; every resolution with both positive passes the resolution
\* check, whatever the size of width*height.
C8_ResolutionRejectedExactlyWhenZero ==
    ConfigCalled =>
        (PassedResolutionCheck <=>
            (/\ ~U32_is_zero(args.config.resolution[1])
             /\ ~U32_is_zero(args.config.resolution[2])))

\* The angle lies strictly inside (0, pi).
StrictlyInside0PI(a) == ~Angle_is_nan(a) /\ a.k = 0 /\ Gt(a.t, Zero) /\ a.t # PosInf

FovRejected == ret = Err(Fov_error(args.config.fov.kind))

\* C9: among the calls that get past the resolution check, Camera::config
\* returns the field-of-view error exactly for the angles that are not
\* strictly inside (0, pi).
C9_FovRejectedOutside0PI ==
    (ConfigCalled /\ PassedResolutionCheck) =>
        (FovRejected <=> ~StrictlyInside0PI(args.config.fov.alpha))

\* C10: a call of Camera::config that returns an error leaves every field
\* of the camera as it was before the call.
C10_FailedConfigLeavesCamera ==
    (ConfigCalled /\ ret.ok = FALSE /\ "err" \in DOMAIN ret) => camera = args.before

\* A fresh camera configured with config, in the given build.
Fresh(config, build) == Camera_config(Camera_default, config, build)

\* C11: Camera::config is history-free and idempotent: after a call that
\* returns Ok the camera equals a fresh camera configured with the same
\* config (in every build in which that succeeds), whatever calls came
\* before; so a second config(c) on a camera that config(c) produced leaves
\* it as it is.
C11_ConfigHistoryFree ==
    (ConfigCalled /\ ret = Ok) =>
        /\ \E build \in Builds : Fresh(args.config, build).result = Ok
        /\ \A build \in Builds :
              Fresh(args.config, build).result = Ok
                  => camera = Fresh(args.config, build).camera
        /\ \A build \in Builds :
              (/\ Fresh(args.config, build).result = Ok
               /\ args.before = Fresh(args.config, build).camera) => camera = args.before

\* A second successful call, on a camera that an earlier call with another
\* configuration had changed.
C11_Witness ==
    /\ ConfigCalled
    /\ calls = 2
    /\ ret = Ok
    /\ args.before # Camera_default
    /\ args.before # camera
    /\ args.config.focus_mode # args.before.focus_mode

VecEq(a, b) == Eq(a[1], b[1]) /\ Eq(a[2], b[2]) /\ Eq(a[3], b[3])

VecExact(a) == IsExact(a[1]) /\ IsExact(a[2]) /\ IsExact(a[3])

\* The facing direction is not the zero vector and not parallel to WORLD_UP.
FacingUsable(direction) ==
    LET c == Vec3_cross(direction, WORLD_UP)
    IN  ~VecEq(c, Vec3_zero) /\ ~IsNaN(c[1]) /\ ~IsNaN(c[2]) /\ ~IsNaN(c[3])

Orthogonal(cs) ==
    /\ Eq(Vec3_dot(cs.u, cs.v), Zero)
    /\ Eq(Vec3_dot(cs.u, cs.w), Zero)
    /\ Eq(Vec3_dot(cs.v, cs.w), Zero)

BasisExact(cs) == VecExact(cs.u) /\ VecExact(cs.v) /\ VecExact(cs.w)

\* C12: after a successful Camera::config with a usable facing direction,
\* for every roll angle, the basis (u, v, w) is orthogonal, w is the
\* normalised facing direction and cross(u, v) = w (wherever the basis was
\* computed without rounding).
C12_RightHandedOrthonormalBasis ==
    (ConfigCalled /\ ret = Ok /\ FacingUsable(args.config.direction)
        /\ BasisExact(camera.coordinate_system)) =>
        /\ Orthogonal(camera.coordinate_system)
        /\ camera.coordinate_system.w = Vec3_normal(args.config.direction)
        /\ VecEq(Vec3_cross(camera.coordinate_system.u, camera.coordinate_system.v),
                 camera.coordinate_system.w)

(***************************************************************************)
(* Properties of Camera::cast_ray (SpecCamera)                             *)
(***************************************************************************)
CastRayCalled == op = "Camera::cast_ray"

U32_lt(x, y) == x[1] < y[1] \/ (x[1] = y[1] /\ x[2] < y[2])

\* Pixel (i, j) lies inside the camera's resolution.
PixelInside(i, j) == U32_lt(i, camera.resolution[1]) /\ U32_lt(j, camera.resolution[2])

\* C13: for a PinHole camera, cast_ray(i, j) returns for every pixel with
\* i < width and j < height a ray whose origin is the camera position, and
\* for i >= width or j >= height no ray.
C13_PinHoleRayOrigin ==
    (CastRayCalled /\ camera.focus_mode.kind = "PinHole") =>
        IF PixelInside(args.i, args.j)
        THEN IsHit(ret) /\ ret.val.origin = camera.coordinate_system.origin
        ELSE ret = None

\* A ray cast through the last pixel of a row by a camera away from the origin.
C13_Witness ==
    /\ CastRayCalled
    /\ camera.focus_mode.kind = "PinHole"
    /\ camera.resolution = <<U32(4), U32(2)>>
    /\ args.i = U32(3)
    /\ IsHit(ret)
    /\ ret.val.origin = VI(1, 2, 3)

\* The offset of a cast ray's origin from the camera position.
LensOffset == Vec3_sub(ret.val.origin, camera.coordinate_system.origin)

\* C14: for a FocalPlane camera with aperture a, every ray returned by
\* cast_ray has its origin in the plane through the camera position spanned
\* by u and v (no offset along w), at a distance of at most a/2 from the
\* optical axis.
C14_ApertureOffsetWithinHalf ==
    (CastRayCalled /\ camera.focus_mode.kind = "FocalPlane" /\ IsHit(ret)) =>
        /\ Eq(Vec3_dot(LensOffset, camera.coordinate_system.w), Zero)
        /\ Le(Vec3_norm2(LensOffset),
              Mul(Div(camera.focus_mode.aperture, Two), Div(camera.focus_mode.aperture, Two)))

(***************************************************************************)
(* Properties of Spectrum::interpolate_at (SpecSpectrum)                   *)
(***************************************************************************)
InterpolateCalled == op = "Spectrum::interpolate_at"

\* C15: for every spectrum of size >= 1 and every stored index k,
\* interpolate_at(wavelengths[k]) returns exactly powers[k], the first
\* wavelength, the last wavelength and the single-sample spectrum included.
C15_StoredWavelengthGivesStoredPower ==
    InterpolateCalled =>
        \A k \in 1..spectrum.size :
            Eq(args.wavelength, spectrum.wavelengths[k]) =>
                IsHit(ret) /\ ret.val = spectrum.powers[k]

\* C16: interpolate_at(w) returns no value for w below the first or above
\* the last stored wavelength and a value for every w in [first, last]; a
\* single-sample spectrum returns a value only for its one wavelength, and
\* an empty spectrum never returns a value.
C16_ValueExactlyInsideRange ==
    InterpolateCalled =>
        IF spectrum.size = 0 THEN ret = None
        ELSE IF Lt(args.wavelength, spectrum.wavelengths[1])
                \/ Gt(args.wavelength, spectrum.wavelengths[spectrum.size])
        THEN ret = None
        ELSE IsHit(ret)

(***************************************************************************)
(* Properties of PathTracer (SpecRender, SpecRenderFair)                   *)
(***************************************************************************)
FixPolicy == tracer.ray_extinction.kind = "Fix"

\* The depth at which the path in progress started: render_pixel starts its
\* paths at 0, a call from outside at its counter argument.
StartDepth == IF op = "PathTracer::propagate_ray" THEN args.counter ELSE 0

\* The frames of the propagate_ray calls in progress, outermost first.
PropagateFrames == SelectSeq(stack, LAMBDA frame : frame.fn = "propagate_ray")

\* The counters of the calls in progress are StartDepth, StartDepth + 1, ...
DepthCountsBounces ==
    \A k \in 1..Len(PropagateFrames) : PropagateFrames[k].counter = StartDepth + k - 1

\* A call beyond max_rays returns 0.0 and leaves the scene alone.
BeyondMaxReturnsZero ==
    IF FixPolicy /\ Entered /\ Top(stack).counter > tracer.ray_extinction.n
    THEN /\ path' = path
         /\ Len(stack') < Len(stack)
         /\ IF Unwind(Pop(stack), Zero).stack = <<>>
            THEN stack' = <<>> /\ ret' = Power(Unwind(Pop(stack), Zero).power)
            ELSE Pop(stack') = Pop(Unwind(Pop(stack), Zero).stack)
    ELSE TRUE

\* C17: under RayExtinction::Fix(max_depth) every path started at depth 0
\* ends: the depth grows by exactly 1 per bounce, a call at a depth above
\* max_depth returns 0 without intersecting the scene, a path intersects the
\* scene at most max_depth + 1 times, and every propagate_ray call in
\* progress returns in the end.
C17_FixPathsTerminate ==
    /\ []((FixPolicy /\ StartDepth = 0) =>
             /\ DepthCountsBounces
             /\ path.intersections <= tracer.ray_extinction.n + 1)
    /\ [][BeyondMaxReturnsZero]_vars
    /\ (FixPolicy /\ Running("propagate_ray")) ~> ~Running("propagate_ray")

\* A path from depth 0 that bounced at each of its max_depth + 1
\* intersections and was cut at depth max_depth + 1.
C17_Witness ==
    /\ op = "PathTracer::propagate_ray"
    /\ stack = <<>>
    /\ tracer.ray_extinction = Fix(MaxFix)
    /\ args.counter = 0
    /\ path.intersections = MaxFix + 1
    /\ IsHit(path.hit)
    /\ path.hit.val.spawned
    /\ path.hit.val.counter = MaxFix

\* The material of the object the last intersection found.
HitMaterial == scene.objects[path.hit.val.object].material

\* The absorption spectrum of the hit material has no value at the ray's
\* wavelength.
AbsorptionOutOfRange ==
    /\ HitMaterial.absorption # None
    /\ Spectrum_interpolate_at(HitMaterial.absorption.val, path.hit.val.wavelength) = None

\* C18: when propagate_ray hits an object whose material has no absorption
\* spectrum, or one without a value at the ray's wavelength, t is 1.0 and a
\* secondary ray is propagated at depth + 1.
C18_MissingAbsorptionIsTransmissive ==
    (IsHit(path.hit) /\ (HitMaterial.absorption = None \/ AbsorptionOutOfRange)) =>
        /\ Eq(path.hit.val.t, One)
        /\ path.hit.val.spawned

\* A propagate_ray call made from outside has returned.
PropagateReturned == op = "PathTracer::propagate_ray" /\ stack = <<>>

InsideGrid(s, wavelength) ==
    /\ s.size >= 1
    /\ Le(s.wavelengths[1], wavelength)
    /\ Le(wavelength, s.wavelengths[s.size])

\* The material emits the constant power at the wavelength and transmits
\* nothing there.
FullyEmissiveAbsorptive(material, wavelength, power) ==
    /\ material.emission # None
    /\ InsideGrid(material.emission.val, wavelength)
    /\ \A k \in 1..material.emission.val.size : material.emission.val.powers[k] = power
    /\ material.absorption # None
    /\ InsideGrid(material.absorption.val, wavelength)
    /\ \A k \in 1..material.absorption.val.size : Le(material.absorption.val.powers[k], Zero)

\* C19: on a scene of a single fully emissive, fully absorptive object
\* (t <= 0, emission E at the ray's wavelength), propagate_ray returns
\* exactly E for every ray that hits the object, whatever the depth counter,
\* the extinction policy and its random draw.
C19_LampReturnsItsEmission ==
    (/\ PropagateReturned
     /\ Len(scene.objects) = 1
     /\ FullyEmissiveAbsorptive(scene.objects[1].material, args.ray.wavelength, Emitted)
     /\ args.ray.hits[1] # None)
        => ret = Power(Emitted)

\* A render call has ended.
RenderEnded == op = "PathTracer::render" /\ stack = <<>>

\* config accepts a resolution only with both components above zero.
ValidlyConfigured == ~U32_is_zero(camera.resolution[1]) /\ ~U32_is_zero(camera.resolution[2])

\* C20: for every scene, every validly configured camera and every
\* non-empty wavelength list, render ends by returning an image of the
\* camera's resolution in which every pixel was written from its spectrum.
C20_RenderReturnsImage ==
    (RenderEnded /\ ValidlyConfigured /\ args.wavelengths # <<>>) =>
        /\ ret # Panic
        /\ ret.width = U32_value(camera.resolution[1])
        /\ ret.height = U32_value(camera.resolution[2])
        /\ ret.pixels = ret.width * ret.height

(***************************************************************************)
(* Properties of the vectors and rays (SpecVector)                         *)
(***************************************************************************)
RayNewCalled == op = "Ray::new"

\* What the claim asks of one implementation's origin(), direction() and
\* point_at(t); the equations between computed numbers are asked where no
\* rounding took place.
RayLaws(r) ==
    /\ r.origin = args.origin
    /\ VecExact(r.direction) =>
          /\ VecEq(Vec3_cross(r.direction, args.d), Vec3_zero)
          /\ Gt(Vec3_dot(r.direction, args.d), Zero)
          /\ Eq(Vec3_norm2(r.direction), One)
    /\ (VecExact(r.direction) /\ VecExact(r.point)) =>
          VecEq(Vec3_sub(r.point, r.origin), Vec3_mul(args.t, r.direction))

\* C23: for every ray built by Ray::new(origin, d, ..) with d non-zero,
\* origin() is the given origin, direction() is d normalised (parallel to
\* d, of unit length) and point_at(t) - origin() = t * direction(); the Ray
\* of light.rs and the Ray of ray.rs behave the same.
C23_RayAccessors ==
    (RayNewCalled /\ args.d # Vec3_zero) =>
        /\ RayLaws(ret.light)
        /\ RayLaws(ret.ray)
        /\ ret.ray = ret.light

Vec3Called == op = "Vec3::add, Vec3::sub"

\* a + b and a - b, component by component.
ComponentWise(r) ==
    /\ \A k \in 1..3 : r.add[k] = Add(args.a[k], args.b[k])
    /\ \A k \in 1..3 : r.sub[k] = Sub(args.a[k], args.b[k])

\* C24: Vec3 addition and subtraction are component-wise in all three
\* components for every pair of vectors, and the Vec3 of algebra.rs and the
\* Vec3 of vec3.rs give the same result for every pair.
C24_ComponentWiseAddSub ==
    Vec3Called =>
        /\ ComponentWise(ret.algebra)
        /\ ComponentWise(ret.vec3)
        /\ ret.vec3 = ret.algebra

(***************************************************************************)
(* Properties of the configured camera's basis and pixel grid (SpecCamera) *)
(***************************************************************************)
\* C29: Camera::config never returns Ok with a degenerate basis: a facing
\* direction that is the zero vector or parallel to WORLD_UP is rejected
\* with an error.
C29_DegenerateDirectionRejected ==
    (ConfigCalled /\ ret = Ok) => FacingUsable(args.config.direction)

\* The centre of pixel (i, j) as cast_ray computes it, for small indices.
PixelCentre(i, j) == Camera_pixel_position(camera, U32(i), U32(j))

\* The point where the optical axis meets the image plane.
AxisPoint ==
    Vec3_add(camera.coordinate_system.origin,
             Vec3_mul(camera.distance_to_plane, camera.coordinate_system.w))

Width == U32_value(camera.resolution[1])
Height == U32_value(camera.resolution[2])

\* Pixels (i, j) and (width-1-i, height-1-j) have the axis point halfway
\* between them.
SymmetricAboutAxis(i, j) ==
    VecEq(Vec3_add(PixelCentre(i, j), PixelCentre(Width - 1 - i, Height - 1 - j)),
          Vec3_mul(Two, AxisPoint))

\* The offsets of pixel (i, j) from the axis point along u and along v.
OffsetU(i, j) == Vec3_dot(Vec3_sub(PixelCentre(i, j), AxisPoint), camera.coordinate_system.u)
OffsetV(i, j) == Vec3_dot(Vec3_sub(PixelCentre(i, j), AxisPoint), camera.coordinate_system.v)

\* The columns and rows looked at: the borders and their neighbours.
BorderColumns == {i \in {0, 1, Width - 2, Width - 1} : 0 <= i /\ i < Width}
BorderRows == {j \in {0, 1, Height - 2, Height - 1} : 0 <= j /\ j < Height}

\* Every stored number of the pixel grid was computed without rounding.
GridExact ==
    /\ BasisExact(camera.coordinate_system)
    /\ VecExact(camera.first_pixel_pos)
    /\ IsExact(camera.pixel_width)
    /\ IsExact(camera.pixel_height)
    /\ IsExact(camera.distance_to_plane)

\* C30: after every successful config (wherever the grid was computed
\* without rounding) the centres of pixels (i, j) and
\* (width-1-i, height-1-j) are symmetric about origin + distance_to_plane*w,
\* pixel (0, 0) has the smallest offset along u and the largest along v, and
\* in FocalPlane mode distance_to_plane is the focal distance.
C30_PixelGridCentred ==
    (ConfigCalled /\ ret = Ok /\ GridExact) =>
        /\ \A i \in BorderColumns, j \in BorderRows :
              /\ SymmetricAboutAxis(i, j)
              /\ Le(OffsetU(0, 0), OffsetU(i, j))
              /\ Ge(OffsetV(0, 0), OffsetV(i, j))
        /\ camera.focus_mode.kind = "FocalPlane" =>
              camera.distance_to_plane = camera.focus_mode.focal_distance

(***************************************************************************)
(* Properties of the pixels of a render (SpecPixels, SpecRender)           *)
(***************************************************************************)
\* C21: pixels are isolated from one another: the state of the random
\* generator that a render_pixel call reads was written by no render_pixel
\* call for another pixel, and the call leaves the scene, the camera and the
\* path tracer as they were.
C21_PixelsIsolated ==
    /\ Cardinality(thread_rng) <= 1
    /\ (op = "PathTracer::render_pixel") =>
           camera = PixelCamera /\ scene \in PixelScenes /\ tracer \in PixelTracers

\* The first intersect_ray of a propagate_ray call made from outside has
\* returned: its ray is args.ray and path.hit what it found.
FirstIntersection == op = "PathTracer::propagate_ray" /\ path.intersections = 1

Intersected(ray) == {k \in DOMAIN ray.hits : ray.hits[k] # None}

\* C22: intersect_ray returns nothing exactly when no object of the scene is
\* intersected by the ray; otherwise it returns an object whose t is the
\* minimum over all intersected objects, whatever the order of insertion,
\* together with ray.point_at(t_min).
C22_NearestHit ==
    FirstIntersection =>
        /\ (path.hit = None) <=> (Intersected(args.ray) = {})
        /\ IsHit(path.hit) =>
              /\ path.hit.val.object \in Intersected(args.ray)
              /\ \A m \in Intersected(args.ray) :
                    Le(args.ray.hits[path.hit.val.object].val, args.ray.hits[m].val)
              /\ path.hit.val.point =
                     Ray_point_at(args.ray, args.ray.hits[path.hit.val.object].val)

\* Two objects are intersected and the nearest is the one added last.
C22_Witness ==
    /\ FirstIntersection
    /\ IsHit(path.hit)
    /\ path.hit.val.object = 2
    /\ Intersected(args.ray) = {1, 2}
    /\ path.hit.val.point = VI(1, 2, 2)

(***************************************************************************)
(* Properties of the interpolation interval (SpecSpectrum)                 *)
(***************************************************************************)
\* x lies between a and b, in either order.
Between(x, a, b) == (Le(a, x) /\ Le(x, b)) \/ (Le(b, x) /\ Le(x, a))

\* C25: for every wavelength w inside [first, last] of a spectrum with at
\* least two samples, the index k that interpolate_at uses satisfies
\* wavelengths[k] <= w <= wavelengths[k+1], k+1 is a valid index, and the
\* result lies between powers[k] and powers[k+1].
C25_BracketingSamples ==
    (InterpolateCalled /\ spectrum.size >= 2 /\ InsideGrid(spectrum, args.wavelength)) =>
        Let(Spectrum_find_wavelength_index(spectrum, args.wavelength), LAMBDA found :
            /\ IsHit(found)
            /\ found.val + 2 <= spectrum.size
            /\ Le(spectrum.wavelengths[found.val + 1], args.wavelength)
            /\ Le(args.wavelength, spectrum.wavelengths[found.val + 2])
            /\ IsHit(ret)
            /\ Between(ret.val, spectrum.powers[found.val + 1], spectrum.powers[found.val + 2]))

(***************************************************************************)
(* Properties of render_pixel (SpecPixels)                                 *)
(***************************************************************************)
PixelFrames == SelectSeq(stack, LAMBDA frame : frame.fn = "render_pixel")

\* A render_pixel call is under way; Pixel is its frame.
Sampling == PixelFrames # <<>>
Pixel == PixelFrames[1]

RECURSIVE SumOf(_)
SumOf(powers) == IF powers = <<>> THEN Zero ELSE Add(SumOf(Pop(powers)), Top(powers))

\* The rays of the propagate_ray calls that have been entered.
EnteredRays ==
    {stack[k].ray : k \in {m \in DOMAIN stack : stack[m].fn = "propagate_ray"
                                                /\ stack[m].pc = "enter"}}

\* While render_pixel runs: the grid of the spectrum is the wavelength
\* list, the sampled index is inside the list and the ray carries the
\* wavelength at that index, before the first sample every bucket is zero,
\* and for an empty list no sample is drawn.
SampledInBounds ==
    Sampling =>
        /\ spectrum.wavelengths = Pixel.wavelengths
        /\ Pixel.sample = 0 => \A k \in DOMAIN spectrum.powers : spectrum.powers[k] = Zero
        /\ Pixel.wavelengths = <<>> => (Pixel.sample = 0 /\ EnteredRays = {})
        /\ Pixel.wavelengths # <<>> =>
              /\ Pixel.wavelength_index < Len(Pixel.wavelengths)
              /\ \A ray \in EnteredRays :
                    ray.wavelength = Pixel.wavelengths[Pixel.wavelength_index + 1]

\* A step that ends a sample adds power / samples_per_pixel to the bucket
\* at the sampled index and to the sum over the buckets, and changes no
\* other bucket; no other step of render_pixel changes the spectrum.
SampleAddsToItsBucket ==
    (Sampling /\ Sampling') =>
        IF Pixel'.sample = Pixel.sample + 1
        THEN /\ spectrum'.wavelengths = spectrum.wavelengths
             /\ \A k \in DOMAIN spectrum.powers :
                   spectrum'.powers[k] =
                       IF k = Pixel'.wavelength_index + 1
                       THEN Add(spectrum.powers[k],
                                Div(Pixel'.power, I(tracer.samples_per_pixel)))
                       ELSE spectrum.powers[k]
             /\ IsExact(SumOf(spectrum'.powers)) =>
                   Eq(SumOf(spectrum'.powers),
                      Add(SumOf(spectrum.powers),
                          Div(Pixel'.power, I(tracer.samples_per_pixel))))
        ELSE spectrum' = spectrum

\* C26: in render_pixel each sample adds power / samples_per_pixel to
\* exactly the bucket at the sampled wavelength index and leaves every other
\* bucket and the wavelength grid unchanged; the sampled index is inside the
\* list and the sampled wavelength is the entry at that index; the sum over
\* the buckets grows from zero by power / samples_per_pixel with every
\* sample; for an empty wavelength list no sample is drawn.
C26_SampleAccumulation == []SampledInBounds /\ [][SampleAddsToItsBucket]_vars

\* Both samples of a pixel were drawn at the second wavelength and returned
\* the emitted power, which the bucket holds after the two halves were added.
C26_Witness ==
    /\ Sampling
    /\ tracer.samples_per_pixel = 2
    /\ Pixel.sample = 2
    /\ Pixel.wavelengths = <<I(1), I(2)>>
    /\ Pixel.wavelength_index = 1
    /\ Pixel.power = Emitted
    /\ spectrum.powers = <<Zero, Emitted>>

(***************************************************************************)
(* Properties of the rays and the value of a path (SpecRender)             *)
(***************************************************************************)
\* The wavelength sampled for the path that is followed: the one of the ray
\* given to propagate_ray from outside, or the one render_pixel drew.
SampledWavelength ==
    IF Sampling THEN Pixel.wavelengths[Pixel.wavelength_index + 1] ELSE args.ray.wavelength

\* Every ray of the path carries the sampled wavelength, and a ray spawned
\* at a hit starts at the point of that hit, one level deeper.
RaysConnected ==
    /\ \A ray \in EnteredRays : ray.wavelength = SampledWavelength
    /\ (Entered /\ IsHit(path.hit) /\ path.hit.val.spawned) =>
          /\ Top(stack).ray.origin = path.hit.val.point
          /\ Top(stack).counter = path.hit.val.counter + 1
          /\ path.hit.val.wavelength = SampledWavelength

\* e + t * rest, bounce by bounce from the last waiting call to the first.
RECURSIVE ValueOf(_, _)
ValueOf(waiting, rest) ==
    IF waiting = <<>> THEN rest
    ELSE ValueOf(Pop(waiting), Add(Top(waiting).e, Mul(Top(waiting).t, rest)))

\* The step in which the path ends: the last propagate_ray call returns, and
\* with it all the calls waiting for it.
PathEnds == PropagateFrames # <<>> /\ PropagateFrames' = <<>>

\* What the last call of the path returns: e of the object that absorbed the
\* ray, 0 for a miss and for an extinguished ray.
LastValue == IF path' # path /\ IsHit(path'.hit) THEN path'.hit.val.e ELSE Zero

\* The value of the path is e + t * (value of the rest) at every bounce.
PathValueComposed ==
    PathEnds =>
        IF stack' = <<>> THEN ret' = Power(ValueOf(Pop(PropagateFrames), LastValue))
        ELSE Pixel'.power = ValueOf(Pop(PropagateFrames), LastValue)

\* C27: along every path each ray, the first and every secondary one,
\* carries the wavelength sampled for the path, each secondary ray starts
\* exactly at the previous hit point, and the value returned for the path is
\* e + t * (value of the rest of the path) at every bounce, with 0
\* contributed by an extinguished path or a miss.
C27_PathValueAndRays == []RaysConnected /\ [][PathValueComposed]_vars

\* A path of two bounces and a last hit on a lamp has returned the lamp's
\* emission, halved at each bounce.
C27_Witness ==
    /\ PropagateReturned
    /\ path.intersections = 3
    /\ IsHit(path.hit)
    /\ ~path.hit.val.spawned
    /\ path.hit.val.point # Ray_point_at(args.ray, One)
    /\ path.hit.val.e = Emitted
    /\ ret = Power(Rat(5, 4))

(***************************************************************************)
(* Properties of a bounce on a sphere (SpecShape)                          *)
(***************************************************************************)
\* A secondary ray was spawned at a hit point on the sphere and sent
\* against the same sphere; the hit point was computed without rounding.
BouncedOnSphere ==
    /\ op = "PathTracer::calculate_next_ray"
    /\ VecExact(ret.hit.point)
    /\ OnSphere(args.shape, ret.hit.point)
    /\ HasDirection(args.ray)

\* C28: the secondary ray spawned at a hit point on a sphere never reports
\* that same sphere at ray parameter t = 0, its own starting point, so two
\* consecutive hit points of a path are never the same point.
C28_BounceLeavesHitPoint ==
    BouncedOnSphere =>
        \/ ~IsHit(ret.next)
        \/ /\ ret.next.val.ray_t # Zero
           /\ ret.next.val.point # ret.hit.point

====
